---- MODULE Spec2Model ----
(***************************************************************************)
(* kicktipp-bot: the row-processing pipeline of GameTipper.tip_all_games   *)
(* (src/src/kicktipp_bot/core/game_tipper.py) as a state machine.          *)
(*                                                                         *)
(* The document is external.  Its skeleton (which tbody rows exist, which  *)
(* carry the class "datarow") is fixed when the run starts; what the       *)
(* driver answers for a row (cells, fields, quotes, faults) is drawn when  *)
(* the row is evaluated and, where later rows or the submission depend on  *)
(* it (the time cell), kept in the state.                                  *)
(*                                                                         *)
(* Times are whole hours.  Field values and quote tokens are strings, as   *)
(* in the page.                                                            *)
(***************************************************************************)
EXTENDS Integers, Sequences, FiniteSets, TLC

\* ------------------------------------------------------------- bounds
MaxRows == 3
MaxNow == 1
MaxTimeRows == 3
MaxRetryCount == 3
MaxQuotes == 4
MaxRuns == 3
MaxCycles == 3
MaxCalls == 3

\* ------------------------------------------------- program constants
\* Config.HOURS_UNTIL_GAME default ("2"); TIME_UNTIL_GAME = timedelta(hours=2)
HOURS_UNTIL_GAME == 2

\* SeleniumUtils.DEFAULT_RETRY_COUNT
DEFAULT_RETRY_COUNT == 3

TIME_UNTIL_GAME == HOURS_UNTIL_GAME

\* ------------------------------------------------------ input domains
RowClasses == {"datarow", "rowheader"}

\* number of tr of the table outside tbody (a thead row or none)
TheadCounts == {0, 1}

\* kickoff times that can stand in a time cell (hours)
Times == {1, 3}

\* td[1] innerHTML of a row as the driver returns it: no cell or an empty
\* one, a text strptime rejects, or a text strptime parses to t
TimeCells == {[kind |-> "none", t |-> 0], [kind |-> "bad", t |-> 0]}
             \cup {[kind |-> "ok", t |-> t] : t \in Times}

Unread == [kind |-> "unread", t |-> 0]

\* value attribute of a prediction input; "absent" = the input is not found
FieldVals == {"", "7"}

FieldPairs == {<<"absent", "absent">>, <<"absent", "">>, <<"", "absent">>}
              \cup (FieldVals \X FieldVals)

\* a header row announces a kickoff time and has no prediction inputs
FieldPairsOf(cls) == IF cls = "rowheader" THEN {<<"absent", "absent">>} ELSE FieldPairs

\* td[2] / td[3] of the row
TeamStates == {"ok", "no_home_element", "no_away_element", "empty_name",
               "blank_name"}

\* td[4] of a row without inputs
ResultCells == {"absent", "empty", "2:1"}

\* a text as the driver returns it: the sequence of its pieces, where a
\* piece is one blank, one slash, one bar, the prefix "Quote: ", or a word
\* (a run of characters with no blank, slash or bar in it)
RECURSIVE Joined(_, _)
Joined(words, sep) ==
    IF Len(words) = 0 THEN <<>>
    ELSE IF Len(words) = 1 THEN <<words[1]>>
    ELSE <<words[1]>> \o sep \o Joined(Tail(words), sep)

Slash == <<" ", "/", " ">>

Bar == <<" ", "|", " ">>

\* the quotes link as the page writes it
LinkQuote ==
    [elem |-> TRUE,
     text |-> <<"Quote: ">> \o Joined(<<"1.50", "3.20", "6.00">>, Slash)]

\* td[5]/a of a row: the element missing, or its innerHTML
QuoteBlobs == {
    [elem |-> FALSE, text |-> <<>>],
    [elem |-> TRUE,  text |-> <<"1.50">>],
    [elem |-> TRUE,  text |-> Joined(<<"1.50", "6.00">>, Slash)],
    [elem |-> TRUE,  text |-> <<"Quote: ">>
                              \o Joined(<<"1.50", "3.20", "6.00">>, Slash)],
    [elem |-> TRUE,  text |-> Joined(<<"2.10", "3.00", "2.00">>, Bar)],
    [elem |-> TRUE,  text |-> Joined(<<"1.50", "abc", "6.00">>, Slash)],
    [elem |-> TRUE,  text |-> Joined(<<"0.00", "3.20", "-1.50">>, Slash)] }

\* outcome of element.clear() / element.send_keys() on one input
WriteFaults == {"ok", "clear_fails", "send_fails"}

\* the driver call of _process_single_game, outside every try block, at which
\* an exception that is no WebDriverException (a dropped connection) surfaces
ExcPoints == {"none", "row_exists", "tip_fields", "already_tipped", "quotes"}

\* delivery of the notification requests: the sinks answer or fail
Deliveries == {"ok", "fails"}

\* ------------------------------------------------------ pure functions
\* str.strip() on the team cells' innerHTML
Strip(s) ==
    CASE s = " Bayern " -> "Bayern"
      [] s = "Dortmund " -> "Dortmund"
      [] s = " " -> ""
      [] OTHER -> s

\* str.strip() of a text: the blanks at both ends removed
RECURSIVE StripText(_)
StripText(text) ==
    IF Len(text) = 0 THEN text
    ELSE IF Head(text) = " " THEN StripText(Tail(text))
    ELSE IF text[Len(text)] = " " THEN StripText(SubSeq(text, 1, Len(text) - 1))
    ELSE text

\* the positions at which sep stands in text
Occurrences(text, sep) ==
    {i \in 1..(Len(text) - Len(sep) + 1) :
        SubSeq(text, i, i + Len(sep) - 1) = sep}

\* sep in text
Contains(text, sep) == Occurrences(text, sep) # {}

\* text.split(sep): cut at the occurrences of sep, leftmost first
RECURSIVE SplitText(_, _)
SplitText(text, sep) ==
    IF ~Contains(text, sep) THEN <<text>>
    ELSE LET i == CHOOSE k \in Occurrences(text, sep) :
                        \A m \in Occurrences(text, sep) : k <= m
         IN  <<SubSeq(text, 1, i - 1)>>
             \o SplitText(SubSeq(text, i + Len(sep), Len(text)), sep)

\* text.replace("Quote: ", "")
RemovePrefix(text) == SelectSeq(text, LAMBDA piece : piece # "Quote: ")

\* a float: a finite value v in hundredths, an infinity or a nan
Finite(v) == [raises |-> FALSE, kind |-> "finite", v |-> v]

\* float() raising ValueError
FloatRaises == [raises |-> TRUE, kind |-> "none", v |-> 0]

\* float() of a word: Python reads signed decimals, "inf" and "nan", and
\* raises ValueError for any other word
FloatOfWord(word) ==
    CASE word = "1.50" -> Finite(150)
      [] word = "2.00" -> Finite(200)
      [] word = "2.10" -> Finite(210)
      [] word = "3.00" -> Finite(300)
      [] word = "3.20" -> Finite(320)
      [] word = "6.00" -> Finite(600)
      [] word = "0.00" -> Finite(0)
      [] word = "-1.50" -> Finite(0 - 150)
      [] word = "inf" -> [raises |-> FALSE, kind |-> "inf", v |-> 0]
      [] word = "nan" -> [raises |-> FALSE, kind |-> "nan", v |-> 0]
      [] OTHER -> FloatRaises

\* float(token): blanks around the number are accepted, anything else in
\* the token is not
FloatOf(tok) ==
    LET core == StripText(tok)
    IN  IF Len(core) = 1 THEN FloatOfWord(core[1]) ELSE FloatRaises

\* str(n) of a goal count
Str(n) ==
    CASE n = 0 -> "0"
      [] n = 1 -> "1"
      [] n = 2 -> "2"
      [] n = 3 -> "3"
      [] n = 4 -> "4"
      [] n = 5 -> "5"
      [] OTHER -> "many"

Abs(x) == IF x < 0 THEN 0 - x ELSE x

\* Python's round() of the non-negative rational n / d: half to even
Round(n, d) ==
    LET q == n \div d
        rem == n % d
    IN  IF 2 * rem > d THEN q + 1
        ELSE IF 2 * rem < d THEN q
        ELSE IF q % 2 = 0 THEN q ELSE q + 1

Max0(x) == IF x < 0 THEN 0 ELSE x

\* variant: the draw test of calculate_tip made inclusive (<=)
TipBranchInclusive(home_quote, away_quote) ==
    LET quote_difference == home_quote - away_quote
    IN  IF Abs(quote_difference) <= 25 THEN "draw"
        ELSE IF quote_difference < 0 THEN "home"
        ELSE "away"

\* the branch Game.calculate_tip takes (lines 74-88), quotes in hundredths
TipBranch(home_quote, away_quote) ==
    LET quote_difference == home_quote - away_quote
    IN  IF Abs(quote_difference) < 25 THEN "draw"
        ELSE IF quote_difference < 0 THEN "home"
        ELSE "away"

\* variant: random_goal subtracted from the favourite's goals
CalculateTipSubtractsRandom(home_quote, away_quote, r) ==
    LET quote_difference == home_quote - away_quote
        coefficient == IF Abs(quote_difference) > 700 THEN 30 ELSE 75
        branch == TipBranch(home_quote, away_quote)
    IN  IF branch = "draw"
        THEN <<r, r>>
        ELSE IF branch = "home"
        THEN <<Max0(Round((0 - quote_difference) * coefficient, 10000)) - r, r>>
        ELSE <<r, Max0(Round(quote_difference * coefficient, 10000)) - r>>

\* Game.calculate_tip on quotes in hundredths with random_goal = r
CalculateTip(home_quote, away_quote, r) ==
    LET quote_difference == home_quote - away_quote
        coefficient == IF Abs(quote_difference) > 700 THEN 30 ELSE 75
        branch == TipBranch(home_quote, away_quote)
    IN  IF branch = "draw"
        THEN <<r, r>>
        ELSE IF branch = "home"
        THEN <<Max0(Round((0 - quote_difference) * coefficient, 10000)) + r, r>>
        ELSE <<r, Max0(Round(quote_difference * coefficient, 10000)) + r>>

\* Game._validate_quotes on three tokens that parse: self.quotes (line 43)
ValidateQuotes(quotes) ==
    <<FloatOf(quotes[1]), FloatOf(quotes[2]), FloatOf(quotes[3])>>

\* variant: calculate_tip taking the draw quote for the away quote
GameCalculateTipReadsDraw(self_quotes, r) ==
    CalculateTip(self_quotes[1].v, self_quotes[2].v, r)

\* game.calculate_tip() without arguments: home_quote and away_quote default
\* to self.quotes[0] and self.quotes[2] (lines 58-61)
GameCalculateTip(self_quotes, r) ==
    CalculateTip(self_quotes[1].v, self_quotes[3].v, r)

\* game.calculate_tip() raising: the difference of the two quotes is an
\* infinity or a nan, no comparison of lines 71-77 holds and round() of
\* line 87 raises OverflowError or ValueError
GameCalculateTipRaises(self_quotes) ==
    self_quotes[1].kind # "finite" \/ self_quotes[3].kind # "finite"

\* Game._validate_quotes: TRUE when the constructor raises ValueError
ValidateQuotesRaises(quotes) ==
    Len(quotes) # 3 \/ \E k \in 1..Len(quotes) : FloatOf(quotes[k]).raises

\* GameTipper._find_game_time: backwards from row game_index to row 1, the
\* first time cell that is present, non-empty and parses; else the clock
RECURSIVE FindTimeFrom(_, _, _)
FindTimeFrom(row_index, cells, clock) ==
    IF row_index < 1 THEN clock
    ELSE IF cells[row_index].kind = "ok" THEN cells[row_index].t
    ELSE FindTimeFrom(row_index - 1, cells, clock)

FindGameTime(game_index, cells, clock) == FindTimeFrom(game_index, cells, clock)

\* variant: _extract_quotes knowing the separator " / " only
ExtractQuotesSlashOnly(blob) ==
    LET quotes_text == StripText(RemovePrefix(blob.text))
        quotes == SplitText(quotes_text, Slash)
    IN  IF ~blob.elem THEN <<>>
        ELSE IF blob.text = <<>> THEN <<>>
        ELSE IF ~Contains(quotes_text, Slash) THEN <<>>
        ELSE IF Len(quotes) # 3 THEN <<>>
        ELSE quotes

\* GameTipper._extract_quotes: the 3 tokens, or <<>> for None
ExtractQuotes(blob) ==
    LET quotes_raw == blob.text
        quotes_text == StripText(RemovePrefix(quotes_raw))
        quotes == IF Contains(quotes_text, Slash)
                  THEN SplitText(quotes_text, Slash)
                  ELSE SplitText(quotes_text, Bar)
    IN  IF ~blob.elem THEN <<>>
        ELSE IF quotes_raw = <<>> THEN <<>>
        ELSE IF ~Contains(quotes_text, Slash) /\ ~Contains(quotes_text, Bar)
        THEN <<>>
        ELSE IF Len(quotes) # 3 THEN <<>>
        ELSE quotes

\* TimeExtractor._parse_time_string: strptime's value, the clock where
\* strptime raises ValueError (lines 105-111)
ParseTimeString(cell, clock) == IF cell.kind = "ok" THEN cell.t ELSE clock

\* TimeExtractor.extract_from_rowheader on a header whose time-like text, if
\* any, stands in cell: None (-1) where no cell looks like a time
ExtractFromRowheader(cell, clock) ==
    IF cell.kind = "none" THEN 0 - 1 ELSE ParseTimeString(cell, clock)

\* TimeExtractor.extract_from_datarow(data_row, fallback_time): the text of
\* a td[1] without "hide" in its class is parsed; else the fallback time
\* (-1 for None) or, without one, the clock
ExtractFromDatarow(cell, fallback_time, clock) ==
    IF cell.kind # "none" /\ ~cell.hidden THEN ParseTimeString(cell, clock)
    ELSE IF fallback_time >= 0 THEN fallback_time
    ELSE clock

\* the (label, value) pairs GameDataExtractor.extract_quotes collects from
\* the anchors (lines 212-223): an anchor whose label or value span is
\* missing or has no text is passed over, the others are stripped
RECURSIVE QuotePairs(_)
QuotePairs(anchors) ==
    IF Len(anchors) = 0 THEN <<>>
    ELSE LET a == Head(anchors)
             label == a.label.found /\ a.label.text # <<>>
             value == a.value.found /\ a.value.text # <<>>
         IN  (IF label /\ value
              THEN <<[label |-> StripText(a.label.text),
                      value |-> StripText(a.value.text)]>>
              ELSE <<>>) \o QuotePairs(Tail(anchors))

\* mapping.get(label) of the dict built from the pairs (line 226): the value
\* of the last pair with that label, <<>> for None
MappingGet(pairs, label) ==
    LET at == {k \in 1..Len(pairs) : pairs[k].label = label}
    IN  IF at = {} THEN <<>>
        ELSE pairs[CHOOSE k \in at : \A m \in at : m <= k].value

\* the new-DOM part of GameDataExtractor.extract_quotes (lines 196-233):
\* the three values in the order 1, X, 2, or <<>> where it falls through
StructuredQuotes(row) ==
    LET pairs == QuotePairs(row.anchors)
        ordered == <<MappingGet(pairs, <<"1">>), MappingGet(pairs, <<"X">>),
                     MappingGet(pairs, <<"2">>)>>
    IN  IF ~row.container THEN <<>>
        ELSE IF Len(row.anchors) < 3 THEN <<>>
        ELSE IF pairs = <<>> THEN <<>>
        ELSE IF \A k \in 1..3 : ordered[k] # <<>> THEN ordered
        ELSE <<>>

\* the legacy part of GameDataExtractor.extract_quotes (lines 241-262)
LegacyQuotes(row) ==
    LET quotes_raw == row.text
        txt == StripText(RemovePrefix(quotes_raw))
        split == IF Contains(txt, Slash) THEN SplitText(txt, Slash)
                 ELSE SplitText(txt, Bar)
        parts == [k \in 1..Len(split) |-> StripText(split[k])]
    IN  IF ~row.link THEN <<>>
        ELSE IF quotes_raw = <<>> THEN <<>>
        ELSE IF ~Contains(txt, Slash) /\ ~Contains(txt, Bar) THEN <<>>
        ELSE IF Len(parts) = 3 THEN parts
        ELSE <<>>

\* variant: extract_quotes returning the values in the order of the anchors
GameDataExtractorExtractQuotesInSourceOrder(row) ==
    LET pairs == QuotePairs(row.anchors)
    IN  IF StructuredQuotes(row) # <<>>
        THEN [shape |-> "structured",
              quotes |-> <<pairs[1].value, pairs[2].value, pairs[3].value>>]
        ELSE IF LegacyQuotes(row) # <<>>
        THEN [shape |-> "legacy", quotes |-> LegacyQuotes(row)]
        ELSE [shape |-> "none", quotes |-> <<>>]

\* GameDataExtractor.extract_quotes (table_processors.py lines 188-265)
GameDataExtractorExtractQuotes(row) ==
    IF StructuredQuotes(row) # <<>>
    THEN [shape |-> "structured", quotes |-> StructuredQuotes(row)]
    ELSE IF LegacyQuotes(row) # <<>>
    THEN [shape |-> "legacy", quotes |-> LegacyQuotes(row)]
    ELSE [shape |-> "none", quotes |-> <<>>]

\* what one wait.until(presence_of_element_located) of safe_find_element
\* does: the element, a TimeoutException, another WebDriverException, or an
\* exception that is no WebDriverException
FindOutcomes == {"found", "timeout", "driver_error", "exception"}

\* variant: safe_find_element sleeping after every failed attempt
RECURSIVE SafeFindElementAlwaysSleeps(_, _, _)
SafeFindElementAlwaysSleeps(attempt, retry_count, outs) ==
    IF attempt > retry_count
    THEN [element |-> FALSE, raised |-> FALSE, trace |-> <<>>]
    ELSE IF outs[attempt] = "found"
    THEN [element |-> TRUE, raised |-> FALSE, trace |-> <<"lookup">>]
    ELSE IF outs[attempt] = "exception"
    THEN [element |-> FALSE, raised |-> TRUE, trace |-> <<"lookup">>]
    ELSE LET rest == SafeFindElementAlwaysSleeps(attempt + 1, retry_count, outs)
         IN  [rest EXCEPT !.trace = <<"lookup", "sleep">> \o rest.trace]

\* SeleniumUtils.safe_find_element from its attempt-th attempt on (counted
\* from 1): the element at the first lookup that finds it; after a
\* TimeoutException or another WebDriverException a sleep of
\* DEFAULT_RETRY_DELAY unless the attempt was the last; None when the
\* attempts are used up.  trace: the lookups and sleeps made, in order
RECURSIVE SafeFindElement(_, _, _)
SafeFindElement(attempt, retry_count, outs) ==
    IF attempt > retry_count
    THEN [element |-> FALSE, raised |-> FALSE, trace |-> <<>>]
    ELSE IF outs[attempt] = "found"
    THEN [element |-> TRUE, raised |-> FALSE, trace |-> <<"lookup">>]
    ELSE IF outs[attempt] = "exception"
    THEN [element |-> FALSE, raised |-> TRUE, trace |-> <<"lookup">>]
    ELSE LET rest == SafeFindElement(attempt + 1, retry_count, outs)
         IN  [rest EXCEPT !.trace =
                    <<"lookup">>
                    \o (IF attempt < retry_count THEN <<"sleep">> ELSE <<>>)
                    \o rest.trace]

\* what element.get_attribute does: a value, None, or one of the two
\* exceptions safe_get_attribute catches
AttributeReads ==
    {[kind |-> "value", v |-> v] : v \in {"", "7"}}
    \cup {[kind |-> k, v |-> ""] : k \in {"null", "stale", "error"}}

\* SeleniumUtils.safe_get_attribute: the value, None after an exception
SafeGetAttribute(read) ==
    IF read.kind = "value" THEN [some |-> TRUE, v |-> read.v]
    ELSE [some |-> FALSE, v |-> ""]

\* `x or ''` as _is_already_tipped applies it to what it read
OrEmpty(x) == IF x.some THEN x.v ELSE ""

\* what _extract_quotes returns for each of the blobs a row can show
QuotesOf == [blob \in QuoteBlobs |-> ExtractQuotes(blob)]

\* variant: one filled input enough for _is_already_tipped
IsAlreadyTippedEither(home_value, away_value) ==
    home_value # "" \/ away_value # ""

\* variant: the test of _is_already_tipped inverted (both values empty)
IsAlreadyTippedInverted(home_value, away_value) ==
    home_value = "" /\ away_value = ""

\* variant: the test made on an attribute the inputs do not carry, so that
\* both values always count as empty
IsAlreadyTippedNever(home_value, away_value) ==
    home_value # home_value /\ away_value # away_value

\* GameTipper._is_already_tipped on the two values read
IsAlreadyTipped(home_value, away_value) == home_value # "" /\ away_value # ""

\* variant: the comparison of _should_tip_game made inclusive (>=)
ShouldTipGameInclusive(game_time, clock) ==
    LET time_until_game == game_time - clock
    IN  ~(time_until_game >= TIME_UNTIL_GAME)

\* GameTipper._should_tip_game
ShouldTipGame(game_time, clock) ==
    LET time_until_game == game_time - clock
    IN  ~(time_until_game > TIME_UNTIL_GAME)

\* variant: safe_send_keys typing again after a failed send_keys
SafeSendKeysRetries(old, keys, fault, clearEff, sendEff) ==
    CASE fault = "clear_fails" -> [ok |-> FALSE, val |-> old, eff |-> <<>>]
      [] fault = "send_fails"  ->
            [ok |-> TRUE, val |-> keys, eff |-> <<clearEff, clearEff, sendEff>>]
      [] OTHER -> [ok |-> TRUE, val |-> keys, eff |-> <<clearEff, sendEff>>]

\* SeleniumUtils.safe_send_keys on one input holding old: element.clear(),
\* then element.send_keys(keys), one attempt.  ok: the return value; val: the
\* value left in the input; eff: the driver commands that took effect
SafeSendKeys(old, keys, fault, clearEff, sendEff) ==
    CASE fault = "clear_fails" -> [ok |-> FALSE, val |-> old, eff |-> <<>>]
      [] fault = "send_fails"  -> [ok |-> FALSE, val |-> "", eff |-> <<clearEff>>]
      [] OTHER -> [ok |-> TRUE, val |-> keys, eff |-> <<clearEff, sendEff>>]

\* variant: _enter_tip reporting success whatever the away write returned
EnterTipIgnoresAway(pair, tip, hw, aw) ==
    LET h == SafeSendKeys(pair[1], Str(tip[1]), hw, "clear_home", "send_home")
    IN  IF ~h.ok
        THEN [ok |-> FALSE, pair |-> <<h.val, pair[2]>>, eff |-> h.eff]
        ELSE LET a == SafeSendKeys(pair[2], Str(tip[2]), aw, "clear_away", "send_away")
             IN  [ok |-> TRUE, pair |-> <<h.val, a.val>>, eff |-> h.eff \o a.eff]

\* GameTipper._enter_tip: home first, away only after home succeeded
EnterTip(pair, tip, hw, aw) ==
    LET h == SafeSendKeys(pair[1], Str(tip[1]), hw, "clear_home", "send_home")
    IN  IF ~h.ok
        THEN [ok |-> FALSE, pair |-> <<h.val, pair[2]>>, eff |-> h.eff]
        ELSE LET a == SafeSendKeys(pair[2], Str(tip[2]), aw, "clear_away", "send_away")
             IN  [ok |-> a.ok, pair |-> <<h.val, a.val>>, eff |-> h.eff \o a.eff]

\* variant: _get_tip_fields satisfied by the home input alone
TipFieldsFoundHomeOnly(pair) == pair[1] # "absent"

\* GameTipper._get_tip_fields: both inputs found, else the result cell is
\* looked up and, when found and non-empty, logged
TipFieldsFound(pair) == pair[1] # "absent" /\ pair[2] # "absent"

\* NotificationManager.send_all_notifications: one request per sink, each
\* sender catching what its request raises, the method catching the rest.
\*   raised - an exception leaves the method;  posts - requests made per sink
SendAllNotifications(delivery) == [raised |-> FALSE, posts |-> 1]

\* variant: a failed delivery escaping the notification step
NotifyStepEscalates(delivery) ==
    [ok |-> delivery # "fails", posts |-> SendAllNotifications(delivery).posts]

\* the notification step of _process_single_game (lines 184-191): the call
\* is wrapped in its own try, whose handler only logs.
\*   ok - control reaches `return True` (line 193)
NotifyStep(delivery) ==
    [ok |-> TRUE, posts |-> SendAllNotifications(delivery).posts]

\* innerHTML of td[2] and td[3] where both cells are found: the two names, an
\* empty home cell, or a home cell that holds a blank and nothing else
TeamHtml(teams) ==
    CASE teams = "empty_name" -> <<"", "Dortmund ">>
      [] teams = "blank_name" -> <<" ", "Dortmund ">>
      [] OTHER -> <<" Bayern ", "Dortmund ">>

\* GameTipper._extract_game_info returning None: a team cell is not found
\* (lines 213-221) or `not home_team or not away_team` holds of the
\* innerHTML as read, before strip() (lines 223-228)
ExtractGameInfoFails(teams) ==
    \/ teams \in {"no_home_element", "no_away_element"}
    \/ TeamHtml(teams)[1] = "" \/ TeamHtml(teams)[2] = ""

\* GameTipper._process_single_game(game_index) against the answers `in`,
\* the time cells read so far and the clock.
\*   ret      - the return value (True: counted as processed)
\*   raised   - an exception left the method
\*   outcome  - the return statement taken
\*   pair     - the two inputs' values afterwards
\*   effects  - the accesses and commands made, in order
\*   events   - the notifications handed to send_all_notifications
ProcessSingleGame(game_index, in, cells, clock) ==
    LET none == [ret |-> FALSE, raised |-> FALSE, outcome |-> "none",
                 pair |-> in.pair, effects |-> <<>>, game_time |-> 0,
                 events |-> <<>>]
        game_time == FindGameTime(game_index, cells, clock)
        e1 == <<"row_exists">>
        e2 == e1 \o <<"game_info">>
        e3 == e2 \o <<"tip_fields">>
        e4 == e3 \o <<"read_values">>
        e5 == e4 \o <<"timing">>
        e6 == e5 \o <<"quotes">>
        quotes == QuotesOf[in.blob]
        tip == GameCalculateTip(ValidateQuotes(quotes), in.r)
        entered == EnterTip(in.pair, tip, in.hw, in.aw)
        notice == NotifyStep(in.delivery)
        event == [time |-> game_time, home |-> Strip(TeamHtml(in.teams)[1]),
                  away |-> Strip(TeamHtml(in.teams)[2]),
                  quotes |-> quotes, tip |-> tip,
                  delivery |-> in.delivery, posts |-> notice.posts]
    IN  IF in.exc = "row_exists"
        THEN [none EXCEPT !.raised = TRUE, !.outcome = "raised", !.effects = e1]
        ELSE IF ~in.found
        THEN [none EXCEPT !.outcome = "no_row", !.effects = e1]
        ELSE IF ExtractGameInfoFails(in.teams)
        THEN [none EXCEPT !.outcome = "no_game_info", !.effects = e2,
                          !.game_time = game_time]
        ELSE IF in.exc = "tip_fields"
        THEN [none EXCEPT !.raised = TRUE, !.outcome = "raised", !.effects = e3,
                          !.game_time = game_time]
        ELSE IF ~TipFieldsFound(in.pair)
        THEN [none EXCEPT !.outcome = "no_tip_fields",
                          !.effects = IF in.result = "absent" THEN e3
                                      ELSE e3 \o <<"read_result">>,
                          !.game_time = game_time]
        ELSE IF in.exc = "already_tipped"
        THEN [none EXCEPT !.raised = TRUE, !.outcome = "raised", !.effects = e4,
                          !.game_time = game_time]
        ELSE IF IsAlreadyTipped(in.pair[1], in.pair[2])
        THEN [none EXCEPT !.outcome = "already_tipped", !.effects = e4,
                          !.game_time = game_time]
        ELSE IF ~ShouldTipGame(game_time, clock)
        THEN [none EXCEPT !.outcome = "too_early", !.effects = e5,
                          !.game_time = game_time]
        ELSE IF in.exc = "quotes"
        THEN [none EXCEPT !.raised = TRUE, !.outcome = "raised", !.effects = e6,
                          !.game_time = game_time]
        ELSE IF quotes = <<>>
        THEN [none EXCEPT !.outcome = "no_quotes", !.effects = e6,
                          !.game_time = game_time]
        ELSE IF ValidateQuotesRaises(quotes)
        THEN [none EXCEPT !.outcome = "game_error", !.effects = e6,
                          !.game_time = game_time]
        ELSE IF GameCalculateTipRaises(ValidateQuotes(quotes))
        THEN [none EXCEPT !.outcome = "game_error", !.effects = e6,
                          !.game_time = game_time]
        ELSE IF ~entered.ok
        THEN [none EXCEPT !.outcome = "enter_failed", !.pair = entered.pair,
                          !.effects = e6 \o entered.eff,
                          !.game_time = game_time]
        ELSE IF ~notice.ok
        THEN [none EXCEPT !.outcome = "game_error", !.pair = entered.pair,
                          !.effects = e6 \o entered.eff \o <<"notify">>,
                          !.game_time = game_time,
                          !.events = <<event>>]
        ELSE [none EXCEPT !.ret = TRUE, !.outcome = "tipped",
                          !.pair = entered.pair,
                          !.effects = e6 \o entered.eff \o <<"notify">>,
                          !.game_time = game_time,
                          !.events = <<event>>]

\* what the driver answers while a row is evaluated.  An answer the
\* evaluation never asks for is left at its default, so the sets below list
\* each distinguishable course once.
DefaultAnswers ==
    [found |-> TRUE, cell |-> [kind |-> "none", t |-> 0], teams |-> "ok",
     pair |-> <<"absent", "absent">>, result |-> "absent",
     blob |-> [elem |-> FALSE, text |-> <<>>],
     hw |-> "ok", aw |-> "ok", r |-> 0, delivery |-> "ok", exc |-> "none"]

OpenPairs == {p \in FieldVals \X FieldVals : p[1] = "" \/ p[2] = ""}

\* the row is not reached, or the evaluation ends before the inputs are read
AnswersEarly ==
    {[DefaultAnswers EXCEPT !.exc = "row_exists"],
     [DefaultAnswers EXCEPT !.found = FALSE],
     [DefaultAnswers EXCEPT !.exc = "tip_fields"]}
    \cup {[DefaultAnswers EXCEPT !.teams = ts] :
                ts \in {t \in TeamStates : ExtractGameInfoFails(t)}}

\* the inputs are looked up; the evaluation ends before a tip is entered
AnswersFields(cls) ==
    {[DefaultAnswers EXCEPT !.pair = p, !.result = res] :
        p \in FieldPairsOf(cls) \ (FieldVals \X FieldVals), res \in ResultCells}
    \cup {[DefaultAnswers EXCEPT !.pair = p, !.exc = x] :
        p \in FieldPairsOf(cls) \cap (FieldVals \X FieldVals),
        x \in {"already_tipped", "quotes"}}
    \cup {[DefaultAnswers EXCEPT !.pair = p, !.blob = b] :
        p \in FieldPairsOf(cls) \cap (FieldVals \X FieldVals), b \in QuoteBlobs}

\* blobs _extract_quotes gets three tokens from
GoodBlobs == {b \in QuoteBlobs : Len(QuotesOf[b]) = 3}

\* a tip is entered: the write faults, the random goal, the delivery
EnterCourses ==
    {[hw |-> "clear_fails", aw |-> "ok", r |-> 0, delivery |-> "ok"],
     [hw |-> "send_fails", aw |-> "ok", r |-> 0, delivery |-> "ok"]}
    \cup {[hw |-> "ok", aw |-> w, r |-> r, delivery |-> "ok"] :
            w \in WriteFaults \ {"ok"}, r \in {0, 1}}
    \cup {[hw |-> "ok", aw |-> "ok", r |-> r, delivery |-> d] :
            r \in {0, 1}, d \in Deliveries}

AnswersEnter(cls) ==
    {[DefaultAnswers EXCEPT !.pair = p, !.blob = b, !.hw = c.hw, !.aw = c.aw,
                            !.r = c.r, !.delivery = c.delivery] :
        p \in FieldPairsOf(cls) \cap OpenPairs, b \in GoodBlobs,
        c \in EnterCourses}
    \cup {[DefaultAnswers EXCEPT !.teams = "blank_name", !.pair = p,
                                 !.blob = LinkQuote, !.r = r] :
            p \in FieldPairsOf(cls) \cap {<<"", "">>}, r \in {0, 1}}

RowInputs(cls) ==
    {[in EXCEPT !.cell = c] :
        in \in AnswersEarly \cup AnswersFields(cls) \cup AnswersEnter(cls),
        c \in TimeCells}

\* --------------------------------------------------------------- state
VARIABLES
    rows,             \* the tbody rows of table tippabgabeSpiele: their classes
    thead,            \* number of tr of the table outside tbody
    tablePresent,     \* the table is in the page
    OVERWRITE_TIPS,   \* Config.OVERWRITE_TIPS
    now,              \* the clock, datetime.now()
    pc,               \* position of tip_all_games
    games_count,      \* local of tip_all_games
    game_index,       \* loop variable of tip_all_games
    processed_count,  \* local of tip_all_games
    evaluated,        \* the row indices handed to _process_single_game, in order
    timeCell,         \* td[1] of the rows as read, as far as still looked at
    notified,         \* notifications handed to the NotificationManager so far
    cur,              \* the call of _process_single_game of this iteration
    submit,           \* what _submit_all_tips did
    entry,            \* how tip_all_games got to the row loop
    run,              \* the cycle of main's loop: "only", "first", "second"
    fields,           \* the inputs' values a first cycle left in the rows
    game,             \* a call of Game.calculate_tip on its own
    unit              \* a call of a helper (parsing, time, driver access) on its own

vars == <<rows, thead, tablePresent, OVERWRITE_TIPS, now, pc, games_count,
          game_index, processed_count, evaluated, timeCell, notified,
          cur, submit, entry, run, fields, game, unit>>

doc == <<rows, thead, tablePresent, OVERWRITE_TIPS>>

\* highest row index the scan can reach
ScanMax == MaxRows + 1

RowIdx == 1..ScanMax

UnreadPair == <<"unread", "unread">>

NoCall == [idx |-> 0, cell |-> "none", pre |-> UnreadPair, result |-> "absent",
           malformed |-> FALSE, ret |-> FALSE, raised |-> FALSE,
           outcome |-> "none", pair |-> UnreadPair, effects |-> <<>>,
           game_time |-> 0, events |-> <<>>, quotes_text |-> <<>>,
           teams |-> "unread", count |-> 0, notes |-> 0]

\* tip_all_games before its first statement
\*   nav   - driver.get and wait_for_page_load
\*   terms - _accept_terms_and_conditions (line 50)
\*   table - the lookup of tippabgabeSpiele in _get_games_count
NoEntry == [nav |-> "none", terms |-> "none", table |-> "none"]

\* no call of a helper on its own
NoUnit == [pc |-> "none"]

\* no call of Game.calculate_tip on its own
NoGame == [pc |-> "none", home_quote |-> 0, away_quote |-> 0,
           random_goal |-> 0, branch |-> "none", tip |-> <<>>]

NoSubmit == [calls |-> 0, button |-> FALSE, primary |-> 0, clicks |-> 0,
             click |-> FALSE, fallback |-> 0, js |-> FALSE, raised |-> FALSE]

\* number of elements of class "datarow"
DataRows == {i \in 1..Len(rows) : rows[i] = "datarow"}

Init ==
    /\ tablePresent \in BOOLEAN
    /\ rows \in UNION {[1..n -> RowClasses] : n \in 0..MaxRows}
    /\ thead \in TheadCounts
    /\ (~tablePresent => rows = <<>> /\ thead = 0)
    /\ OVERWRITE_TIPS \in BOOLEAN
    /\ now \in 0..MaxNow
    /\ pc = "idle"
    /\ games_count = 0
    /\ game_index = 0
    /\ processed_count = 0
    /\ evaluated = <<>>
    /\ timeCell = [i \in RowIdx |-> Unread]
    /\ notified = 0
    /\ cur = NoCall
    /\ submit = NoSubmit
    /\ entry = NoEntry
    /\ run = "only"
    /\ fields = [i \in RowIdx |-> UnreadPair]
    /\ game = NoGame
    /\ unit = NoUnit

\* ------------------------------------------------------------- actions
\* GameTipper._get_games_count
\*   tableFound   - safe_find_element(By.ID, "tippabgabeSpiele") found it
\*   datarowsSeen - safe_find_elements(By.CLASS_NAME, "datarow") answered
\*   trSeen       - safe_find_elements(By.XPATH, '...//tr') answered
GetGamesCount(tableFound, datarowsSeen, trSeen) ==
    LET games == IF datarowsSeen THEN Cardinality(DataRows) ELSE 0
        table_rows == IF trSeen THEN thead + Len(rows) ELSE 0
    IN  IF ~tableFound THEN 0
        ELSE IF games # 0 THEN games
        ELSE IF table_rows > 1 THEN table_rows - 1
        ELSE 0

\* GameTipper._accept_terms_and_conditions as seen by its caller: it returns,
\* or the iframe lookup outside its try block lets an exception through
TermsOutcomes == {"returns", "raises"}

\* tip_all_games up to the row loop (lines 33-61)
Start ==
    /\ pc = "idle"
    /\ \E nav \in {"ok", "driver_error", "load_timeout"},
          terms \in TermsOutcomes,
          tableFound \in BOOLEAN, datarowsSeen \in BOOLEAN, trSeen \in BOOLEAN :
        LET count == GetGamesCount(tableFound, datarowsSeen, trSeen)
        IN  /\ tableFound => tablePresent
            /\ IF nav # "ok" \/ terms = "raises"
               THEN /\ pc' = "raised"
                    /\ entry' = [nav |-> nav,
                                 terms |-> IF nav = "ok" THEN terms ELSE "none",
                                 table |-> "none"]
                    /\ UNCHANGED games_count
               ELSE /\ games_count' = count
                    /\ entry' = [nav |-> nav, terms |-> terms,
                                 table |-> IF tableFound THEN "found"
                                           ELSE "not_found"]
                    /\ pc' = IF count = 0 THEN "returned" ELSE "scanning"
    /\ game_index' = 1
    /\ UNCHANGED <<doc, game, unit, now, processed_count, evaluated, timeCell,
                   notified, cur, submit, run, fields>>

\* the class of row i; an index past the last row names no row
ClassOf(i) == IF i <= Len(rows) THEN rows[i] ELSE "rowheader"

\* the answers by the class of the row
RowInputsOf == [cls \in RowClasses |-> RowInputs(cls)]

\* answers the driver can give for row i
AnswersFor(i) ==
    {in \in RowInputsOf[ClassOf(i)] :
        i > Len(rows) => (~in.found /\ in.cell.kind = "none")}

\* a value attribute as the answers above spell it: absent, empty, or the
\* one non-empty value of FieldVals
Canon(v) == IF v \in {"absent", "", "unread"} THEN v ELSE "7"

CanonPair(p) == <<Canon(p[1]), Canon(p[2])>>

\* answers the driver can give for row i in this cycle: in a second cycle
\* the value attributes are those the first cycle left (a lookup of an input
\* may still come back empty-handed)
AnswersSeen(i) ==
    IF run # "second" \/ fields[i] = UnreadPair THEN AnswersFor(i)
    ELSE {in \in AnswersFor(i) : in.pair \notin FieldVals \X FieldVals}
         \cup {[in EXCEPT !.pair = fields[i]] :
                    in \in {x \in AnswersFor(i) : x.pair = CanonPair(fields[i])}}

\* the call looked up the two inputs of the row
ReadsFields(res) == res.outcome = "no_tip_fields" \/ Len(res.effects) >= 4

\* TRUE when the quotes blob does not yield 3 numeric quotes
Malformed(blob) ==
    QuotesOf[blob] = <<>> \/ ValidateQuotesRaises(QuotesOf[blob])

\* the record kept of a call of _process_single_game; quotes_text is what the
\* quotes link showed and teams what the team cells gave, kept for a call
\* that read them; count and notes are processed_count and the number of
\* notifications as the call found them
CallRecord(i, in, res) ==
    LET sawFields == ~res.raised /\ Len(res.effects) >= 3
    IN  [idx |-> i, cell |-> in.cell.kind,
         pre |-> IF sawFields THEN in.pair ELSE UnreadPair,
         result |-> IF res.outcome = "no_tip_fields" THEN in.result ELSE "absent",
         malformed |-> sawFields /\ TipFieldsFound(in.pair) /\ Malformed(in.blob),
         ret |-> res.ret, raised |-> res.raised, outcome |-> res.outcome,
         pair |-> IF sawFields THEN res.pair ELSE UnreadPair,
         effects |-> res.effects, game_time |-> res.game_time,
         events |-> res.events,
         quotes_text |-> IF ~res.raised /\ Len(res.effects) >= 6
                         THEN in.blob.text ELSE <<>>,
         teams |-> IF ~res.raised /\ Len(res.effects) >= 2
                   THEN in.teams ELSE "unread",
         count |-> processed_count, notes |-> notified]

\* the time cells after row i showed cell: _find_game_time returns at the
\* first cell that parses, so once row i has one no cell above it is read
\* again, and a cell that does not parse is passed over like a missing one
Remember(cells, i, cell) ==
    IF cell.kind = "ok" THEN [j \in RowIdx |-> IF j = i THEN cell ELSE Unread]
    ELSE cells

\* what a call of _process_single_game(game_index) leaves behind
RowCall(in, res) ==
    /\ evaluated' = Append(evaluated, game_index)
    /\ timeCell' = Remember(timeCell, game_index, in.cell)
    /\ cur' = CallRecord(game_index, in, res)
    /\ notified' = notified + Len(res.events)
    /\ fields' = IF run = "first" /\ ReadsFields(res)
                 THEN [fields EXCEPT ![game_index] = res.pair]
                 ELSE fields

\* variant: the loop counting every row whose call returned
ProcessRowCountsAll ==
    /\ pc = "scanning"
    /\ game_index < games_count
    /\ \E in \in {x \in AnswersSeen(game_index) : x.exc = "none"} :
        LET res == ProcessSingleGame(game_index, in,
                                     [timeCell EXCEPT ![game_index] = in.cell], now)
        IN  /\ ~res.raised
            /\ RowCall(in, res)
            /\ processed_count' = processed_count + 1
    /\ pc' = "row_done"
    /\ UNCHANGED <<doc, game, unit, entry, run, now, games_count, game_index, submit>>

\* the body of the row loop (lines 66-68): the call returns
ProcessRow ==
    /\ pc = "scanning"
    /\ game_index < games_count
    /\ \E in \in {x \in AnswersSeen(game_index) : x.exc = "none"} :
        LET res == ProcessSingleGame(game_index, in,
                                     [timeCell EXCEPT ![game_index] = in.cell], now)
        IN  /\ ~res.raised
            /\ RowCall(in, res)
            /\ processed_count' = IF res.ret THEN processed_count + 1
                                  ELSE processed_count
    /\ pc' = "row_done"
    /\ UNCHANGED <<doc, game, unit, entry, run, now, games_count, game_index, submit>>

\* the body of the row loop (lines 66-73): the call raises, the handler logs
\* and calls _accept_terms_and_conditions; an exception out of the handler
\* leaves the loop and becomes GameTippingError (lines 89-90)
ProcessRowRaises ==
    /\ pc = "scanning"
    /\ game_index < games_count
    /\ \E in \in {x \in AnswersSeen(game_index) : x.exc # "none"},
          terms \in TermsOutcomes :
        LET res == ProcessSingleGame(game_index, in,
                                     [timeCell EXCEPT ![game_index] = in.cell], now)
        IN  /\ res.raised
            /\ RowCall(in, res)
            /\ pc' = IF terms = "raises" THEN "raised" ELSE "row_done"
    /\ UNCHANGED <<doc, game, unit, entry, run, now, games_count, game_index,
                   processed_count, submit>>

\* variant: the for statement handing out the same index again
NextRowStuck ==
    /\ pc = "row_done"
    /\ pc' = "scanning"
    /\ cur' = NoCall
    /\ UNCHANGED <<doc, game, unit, entry, run, fields, now, games_count, game_index,
                   processed_count, evaluated, timeCell, notified, submit>>

\* variant: the row loop starting over after every row
NextRowStartsOver ==
    /\ pc = "row_done"
    /\ game_index' = 1
    /\ pc' = "scanning"
    /\ cur' = NoCall
    /\ processed_count' = 0
    /\ evaluated' = <<>>
    /\ timeCell' = [i \in RowIdx |-> Unread]
    /\ notified' = 0
    /\ UNCHANGED <<doc, game, unit, entry, run, fields, now, games_count, submit>>

\* the for statement takes the next index (line 65; `continue`, line 73)
NextRow ==
    /\ pc = "row_done"
    /\ game_index' = game_index + 1
    /\ pc' = "scanning"
    /\ cur' = NoCall
    /\ UNCHANGED <<doc, game, unit, entry, run, fields, now, games_count, processed_count,
                   evaluated, timeCell, notified, submit>>

\* what one element.click() of safe_click does
ClickOutcomes == {"clicked", "not_interactable", "stale", "error"}

\* variant: safe_click trying again after a stale element
RECURSIVE SafeClickFromRetriesStale(_, _)
SafeClickFromRetriesStale(attempt, outs) ==
    IF attempt > DEFAULT_RETRY_COUNT
    THEN [ok |-> FALSE, clicks |-> DEFAULT_RETRY_COUNT]
    ELSE IF outs[attempt] = "clicked" THEN [ok |-> TRUE, clicks |-> attempt]
    ELSE SafeClickFromRetriesStale(attempt + 1, outs)

\* SeleniumUtils.safe_click: up to DEFAULT_RETRY_COUNT attempts; True at the
\* first click that goes through, False at once on a stale element, False
\* when the attempts are used up.  clicks: the element.click() calls made
RECURSIVE SafeClickFrom(_, _)
SafeClickFrom(attempt, outs) ==
    IF attempt > DEFAULT_RETRY_COUNT
    THEN [ok |-> FALSE, clicks |-> DEFAULT_RETRY_COUNT]
    ELSE IF outs[attempt] = "clicked" THEN [ok |-> TRUE, clicks |-> attempt]
    ELSE IF outs[attempt] = "stale" THEN [ok |-> FALSE, clicks |-> attempt]
    ELSE SafeClickFrom(attempt + 1, outs)

SafeClickRetriesStale(outs) == SafeClickFromRetriesStale(1, outs)

SafeClick(outs) == SafeClickFrom(1, outs)

\* variant: the JavaScript click made whatever safe_click returned
SubmitAllTipsAlwaysFallback(button, outs, js) ==
    LET c == SafeClick(outs)
    IN  IF ~button
        THEN [NoSubmit EXCEPT !.calls = 1, !.raised = TRUE]
        ELSE [calls |-> 1, button |-> TRUE, primary |-> 1, clicks |-> c.clicks,
              click |-> c.ok, fallback |-> 1, js |-> js,
              raised |-> ~c.ok /\ ~js]

\* variant: a failed JavaScript click logged and not raised
SubmitAllTipsSwallowsFailure(button, outs, js) ==
    LET c == SafeClick(outs)
    IN  IF ~button
        THEN [NoSubmit EXCEPT !.calls = 1, !.raised = TRUE]
        ELSE IF c.ok
        THEN [calls |-> 1, button |-> TRUE, primary |-> 1, clicks |-> c.clicks,
              click |-> TRUE, fallback |-> 0, js |-> FALSE, raised |-> FALSE]
        ELSE [calls |-> 1, button |-> TRUE, primary |-> 1, clicks |-> c.clicks,
              click |-> FALSE, fallback |-> 1, js |-> js, raised |-> FALSE]

\* GameTipper._submit_all_tips (lines 355-388)
\*   button - safe_find_element(By.NAME, "submitbutton") found it
\*   outs   - what the attempts of safe_click(submit_button) meet
\*   js     - execute_script("arguments[0].click();") did not raise
\* The record: primary, fallback - calls of safe_click and of the JavaScript
\* click; click, js - what they reported; raised - GameTippingError
SubmitAllTips(button, outs, js) ==
    LET c == SafeClick(outs)
    IN  IF ~button
        THEN [NoSubmit EXCEPT !.calls = 1, !.raised = TRUE]
        ELSE IF c.ok
        THEN [calls |-> 1, button |-> TRUE, primary |-> 1, clicks |-> c.clicks,
              click |-> TRUE, fallback |-> 0, js |-> FALSE, raised |-> FALSE]
        ELSE [calls |-> 1, button |-> TRUE, primary |-> 1, clicks |-> c.clicks,
              click |-> FALSE, fallback |-> 1, js |-> js, raised |-> ~js]

\* the courses a call of safe_click can take, each listed once: what the
\* attempts after the deciding one would meet is never asked for
ClickCourses ==
    {outs \in [1..DEFAULT_RETRY_COUNT -> ClickOutcomes] :
        \A k \in 1..DEFAULT_RETRY_COUNT :
            (\E j \in 1..(k - 1) : outs[j] \in {"clicked", "stale"})
                => outs[k] = "clicked"}

\* the courses a call of _submit_all_tips can take, each listed once: the
\* clicks are not made without the button, nor the JavaScript click after a
\* click that went through
SubmitCourses ==
    {<<FALSE, [k \in 1..DEFAULT_RETRY_COUNT |-> "clicked"], FALSE>>}
    \cup {<<TRUE, outs, FALSE>> : outs \in ClickCourses}
    \cup {<<TRUE, outs, TRUE>> :
                outs \in {o \in ClickCourses : ~SafeClick(o).ok}}

\* the row loop is exhausted: _submit_all_tips is called (lines 75-78); its
\* GameTippingError is re-raised (lines 85-86)
Submit ==
    /\ pc = "scanning"
    /\ game_index >= games_count
    /\ \E course \in SubmitCourses :
        LET button == course[1]
            outs == course[2]
            js == course[3]
            done == SubmitAllTips(button, outs, js)
        IN  /\ submit' = [done EXCEPT !.calls = submit.calls + done.calls]
            /\ pc' = IF done.raised THEN "raised" ELSE "returned"
    /\ UNCHANGED <<doc, game, unit, entry, run, fields, now, games_count, game_index,
                   processed_count, evaluated, timeCell, notified, cur>>

\* time passes between two rows
Tick ==
    /\ pc = "scanning"
    /\ now < MaxNow
    /\ now' = now + 1
    /\ UNCHANGED <<doc, game, unit, entry, run, fields, pc, games_count, game_index,
                   processed_count, evaluated, timeCell, notified, cur, submit>>

\* main's loop (main.py lines 154-186): after a cycle that returned, the
\* sleep, then KicktippBot.run again with a new GameTipper on the page as the
\* first cycle's submission left it
Rerun ==
    /\ run = "first"
    /\ pc = "returned"
    /\ run' = "second"
    /\ \E t \in now..MaxNow : now' = t
    /\ pc' = "idle"
    /\ games_count' = 0
    /\ game_index' = 0
    /\ processed_count' = 0
    /\ evaluated' = <<>>
    /\ timeCell' = [i \in RowIdx |-> Unread]
    /\ notified' = 0
    /\ cur' = NoCall
    /\ submit' = NoSubmit
    /\ entry' = NoEntry
    /\ UNCHANGED <<doc, game, unit, fields>>

Next == Start \/ ProcessRow \/ ProcessRowRaises \/ NextRow \/ Submit \/ Tick

Spec == Init /\ [][Next]_vars

\* the statements of tip_all_games: one thread runs them one after the
\* other, and each driver call in them comes back within its timeout
Progress == Start \/ ProcessRow \/ ProcessRowRaises \/ NextRow \/ Submit

\* a run from the start of the clock; the flag OVERWRITE_TIPS, which no
\* statement reads, is left unset
InitLive == Init /\ now = 0 /\ OVERWRITE_TIPS = FALSE

\* a run whose thread keeps running
SpecLive == InitLive /\ [][Next]_vars /\ WF_vars(Progress)

\* two cycles of main's loop over a page with the table, OVERWRITE_TIPS unset
InitTwice ==
    /\ tablePresent = TRUE
    /\ rows \in UNION {[1..n -> RowClasses] : n \in 0..MaxRows}
    /\ thead = 0
    /\ OVERWRITE_TIPS = FALSE
    /\ now \in 0..MaxNow
    /\ pc = "idle"
    /\ games_count = 0
    /\ game_index = 0
    /\ processed_count = 0
    /\ evaluated = <<>>
    /\ timeCell = [i \in RowIdx |-> Unread]
    /\ notified = 0
    /\ cur = NoCall
    /\ submit = NoSubmit
    /\ entry = NoEntry
    /\ run = "first"
    /\ fields = [i \in RowIdx |-> UnreadPair]
    /\ game = NoGame
    /\ unit = NoUnit

NextTwice == Next \/ Rerun

SpecTwice == InitTwice /\ [][NextTwice]_vars

\* ------------------------------------------- Game.calculate_tip alone
\* quotes handed to Game.calculate_tip, in hundredths: multiples of 0.25,
\* which float() and the subtraction of calculate_tip represent exactly,
\* and 1.20, less than 0.25 away from 1.00 and from 1.25
QuoteValues == {0 - 500, 0, 100, 120, 125, 150, 300, 700, 800, 825, 1600, 2600}

InitTip ==
    /\ tablePresent = FALSE
    /\ rows = <<>>
    /\ thead = 0
    /\ OVERWRITE_TIPS = FALSE
    /\ now = 0
    /\ pc = "unit"
    /\ games_count = 0
    /\ game_index = 0
    /\ processed_count = 0
    /\ evaluated = <<>>
    /\ timeCell = [i \in RowIdx |-> Unread]
    /\ notified = 0
    /\ cur = NoCall
    /\ submit = NoSubmit
    /\ entry = NoEntry
    /\ run = "only"
    /\ fields = [i \in RowIdx |-> UnreadPair]
    /\ unit = NoUnit
    /\ \E h \in QuoteValues, a \in QuoteValues :
            game = [NoGame EXCEPT !.pc = "new", !.home_quote = h,
                                  !.away_quote = a]

\* game.calculate_tip(): random.randint(0, 1) is drawn inside (line 67)
CalculateTipCall ==
    /\ game.pc = "new"
    /\ \E r \in {0, 1} :
        game' = [game EXCEPT !.pc = "done", !.random_goal = r,
                    !.branch = TipBranch(game.home_quote, game.away_quote),
                    !.tip = CalculateTip(game.home_quote, game.away_quote, r)]
    /\ UNCHANGED <<doc, unit, now, pc, games_count, game_index,
                   processed_count, evaluated, timeCell, notified, cur, submit,
                   entry, run, fields>>

NextTip == CalculateTipCall

SpecTip == InitTip /\ [][NextTip]_vars

\* ------------------------------------- the quote parsers on their own
\* every variable of a run at rest
NoRun ==
    /\ tablePresent = FALSE
    /\ rows = <<>>
    /\ thead = 0
    /\ OVERWRITE_TIPS = FALSE
    /\ now = 0
    /\ pc = "unit"
    /\ games_count = 0
    /\ game_index = 0
    /\ processed_count = 0
    /\ evaluated = <<>>
    /\ timeCell = [i \in RowIdx |-> Unread]
    /\ notified = 0
    /\ cur = NoCall
    /\ submit = NoSubmit
    /\ entry = NoEntry
    /\ run = "only"
    /\ fields = [i \in RowIdx |-> UnreadPair]
    /\ game = NoGame

QuoteWords == <<"1.50", "3.20", "6.00", "9.00">>

\* what can stand between two values of a quotes link: the two separators
\* the parsers know, each also with a second blank after it, and two they
\* do not know
Separators ==
    {Slash, Bar, Slash \o <<" ">>, Bar \o <<" ">>, <<"/">>, <<" ", "-", " ">>}

\* the text of a legacy quotes link: n values joined by one separator, with
\* or without the prefix, with or without blanks around
LegacyText(n, sep, prefix, padded) ==
    [n |-> n, sep |-> sep, prefix |-> prefix, padded |-> padded,
     text |-> (IF padded THEN <<" ">> ELSE <<>>)
              \o (IF prefix THEN <<"Quote: ">> ELSE <<>>)
              \o Joined(SubSeq(QuoteWords, 1, n), sep)
              \o (IF padded THEN <<" ">> ELSE <<>>)]

JoinedTexts ==
    {LegacyText(n, sep, prefix, padded) :
        n \in 0..4, sep \in Separators, prefix \in BOOLEAN, padded \in BOOLEAN}

\* texts that mix the separators, end in one, or hold an empty value; n is
\* the number of tokens the text splits into (0: no separator is found)
MixedTexts ==
    {[n |-> 2, sep |-> <<>>, prefix |-> FALSE, padded |-> FALSE,
      text |-> <<"1.50">> \o Slash \o <<"3.20">> \o Bar \o <<"6.00">>],
     [n |-> 3, sep |-> <<>>, prefix |-> FALSE, padded |-> FALSE,
      text |-> <<"1.50">> \o Bar \o <<"3.20">> \o Slash \o <<"6.00">>
               \o Slash \o <<"9.00">>],
     [n |-> 2, sep |-> <<>>, prefix |-> FALSE, padded |-> FALSE,
      text |-> <<"1.50">> \o Slash \o <<"3.20">> \o Slash],
     [n |-> 3, sep |-> <<>>, prefix |-> FALSE, padded |-> FALSE,
      text |-> <<"1.50">> \o Slash \o Slash \o <<"6.00">>],
     [n |-> 0, sep |-> <<>>, prefix |-> FALSE, padded |-> FALSE,
      text |-> <<" ">>]}

QuoteEntry(label, value) ==
    [label |-> [found |-> TRUE, text |-> label],
     value |-> [found |-> TRUE, text |-> value]]

\* the three anchors of a structured quotes block, in document order
Permutations3 ==
    {p \in [1..3 -> 1..3] : \A i, j \in 1..3 : p[i] = p[j] => i = j}

QuoteLabels == <<<<"1">>, <<"X">>, <<"2">>>>

\* what can be wrong with one anchor
Defects == {"none", "no_label", "no_value", "empty_label", "empty_value",
            "blank_value", "other_label", "padded"}

Defective(anchor, defect) ==
    CASE defect = "no_label" -> [anchor EXCEPT !.label.found = FALSE,
                                              !.label.text = <<>>]
      [] defect = "no_value" -> [anchor EXCEPT !.value.found = FALSE,
                                              !.value.text = <<>>]
      [] defect = "empty_label" -> [anchor EXCEPT !.label.text = <<>>]
      [] defect = "empty_value" -> [anchor EXCEPT !.value.text = <<>>]
      [] defect = "blank_value" -> [anchor EXCEPT !.value.text = <<" ">>]
      [] defect = "other_label" -> [anchor EXCEPT !.label.text = <<"3">>]
      [] defect = "padded" ->
            [anchor EXCEPT !.label.text = <<" ">> \o anchor.label.text,
                          !.value.text = anchor.value.text \o <<" ">>]
      [] OTHER -> anchor

\* the anchors of a structured block: the three entries in any order, one
\* of them possibly defective; two of them only; four with one label twice
AnchorLists ==
    {[k \in 1..3 |->
        Defective(QuoteEntry(QuoteLabels[p[k]], <<QuoteWords[p[k]]>>),
                  IF k = at THEN defect ELSE "none")] :
        p \in Permutations3, at \in 1..3, defect \in Defects}
    \cup {[k \in 1..2 |-> QuoteEntry(QuoteLabels[p[k]], <<QuoteWords[p[k]]>>)] :
            p \in Permutations3}
    \cup {[k \in 1..3 |-> QuoteEntry(QuoteLabels[p[k]], <<QuoteWords[p[k]]>>)]
          \o <<QuoteEntry(QuoteLabels[p[1]], <<"9.00">>)>> :
            p \in Permutations3}

GoodLegacy == Joined(<<"2.10", "3.00", "2.00">>, Bar)

\* a game row as the two parsers see its quotes: the legacy link alone, or
\* a structured block with or without a legacy link beside it
LegacyRow(t) ==
    [container |-> FALSE, anchors |-> <<>>, link |-> TRUE, text |-> t.text,
     legacy |-> t]

\* rows with the legacy link alone
LegacyRows == {LegacyRow(t) : t \in JoinedTexts \cup MixedTexts}

QuoteRows ==
    LegacyRows
    \cup {[container |-> c, anchors |-> a, link |-> l,
           text |-> IF l THEN GoodLegacy ELSE <<>>,
           legacy |-> [n |-> 3, sep |-> Bar, prefix |-> FALSE,
                       padded |-> FALSE, text |-> GoodLegacy]] :
            c \in BOOLEAN, a \in AnchorLists, l \in BOOLEAN}

InitQuotes ==
    /\ NoRun
    /\ \E row \in QuoteRows : unit = [pc |-> "new", row |-> row]

\* both parsers are handed the row: GameTipper._extract_quotes reads the
\* link, GameDataExtractor.extract_quotes the structured block and the link
ExtractQuotesCall ==
    /\ unit.pc = "new"
    /\ unit' = [pc |-> "done", row |-> unit.row,
                quotes |-> ExtractQuotes([elem |-> unit.row.link,
                                          text |-> unit.row.text]),
                extracted |-> GameDataExtractorExtractQuotes(unit.row)]
    /\ UNCHANGED <<doc, game, now, pc, games_count, game_index,
                   processed_count, evaluated, timeCell, notified, cur, submit,
                   entry, run, fields>>

NextQuotes == ExtractQuotesCall

SpecQuotes == InitQuotes /\ [][NextQuotes]_vars

\* ------------------------------------------ the time lookup on its own
\* td[1] of a row with its class attribute: a cell of a data row may carry
\* "hide"; get_attribute("innerHTML") returns its text all the same
TimeRowKinds ==
    {[cls |-> cls, cell |-> [kind |-> c.kind, t |-> c.t, hidden |-> FALSE]] :
        cls \in RowClasses, c \in TimeCells}
    \cup {[cls |-> "datarow", cell |-> [kind |-> c.kind, t |-> c.t,
                                        hidden |-> TRUE]] :
            c \in TimeCells \ {[kind |-> "none", t |-> 0]}}

\* fallback times a caller can hand to extract_from_datarow; -1 is None
FallbackTimes == {0 - 1} \cup Times

NoExtract == [fallback_time |-> 0 - 1, datarow |-> 0 - 1, rowheader |-> 0 - 1]

InitTime ==
    /\ NoRun
    /\ \E table \in UNION {[1..n -> TimeRowKinds] : n \in 1..MaxTimeRows} :
            unit = [pc |-> "scan", table |-> table, row_index |-> 0,
                    game_times |-> <<>>, extract |-> NoExtract]

\* the time of the next row is looked up: _find_game_time as
\* _extract_game_info calls it for the rows in ascending order, and the two
\* extractors of TimeExtractor on the same row
FindGameTimeCall ==
    /\ unit.pc = "scan"
    /\ unit.row_index < Len(unit.table)
    /\ \E fallback_time \in FallbackTimes :
        LET next_index == unit.row_index + 1
            cells == [i \in 1..Len(unit.table) |-> unit.table[i].cell]
            cell == cells[next_index]
        IN  unit' = [unit EXCEPT
                !.row_index = next_index,
                !.game_times = Append(unit.game_times,
                                      FindGameTime(next_index, cells, now)),
                !.extract = [fallback_time |-> fallback_time,
                             datarow |-> ExtractFromDatarow(cell, fallback_time,
                                                            now),
                             rowheader |-> ExtractFromRowheader(cell, now)]]
    /\ UNCHANGED <<doc, game, now, pc, games_count, game_index,
                   processed_count, evaluated, timeCell, notified, cur, submit,
                   entry, run, fields>>

NextTime == FindGameTimeCall

SpecTime == InitTime /\ [][NextTime]_vars

\* ------------------------------------ the driver helpers on their own
\* the courses a call of safe_find_element can take, each listed once
FindCourses(retry_count) ==
    {outs \in [1..retry_count -> FindOutcomes] :
        \A k \in 1..retry_count :
            (\E j \in 1..(k - 1) : outs[j] \in {"found", "exception"})
                => outs[k] = "found"}

TipKeys == {"0", "1", "2"}

InitSelenium ==
    /\ NoRun
    /\ unit = [pc |-> "new"]

SafeFindElementCall ==
    /\ unit.pc = "new"
    /\ \E retry_count \in 0..MaxRetryCount :
       \E outs \in FindCourses(retry_count) :
            unit' = [pc |-> "done", fn |-> "safe_find_element",
                     retry_count |-> retry_count, outs |-> outs,
                     result |-> SafeFindElement(1, retry_count, outs)]
    /\ UNCHANGED <<doc, game, now, pc, games_count, game_index,
                   processed_count, evaluated, timeCell, notified, cur, submit,
                   entry, run, fields>>

SafeClickCall ==
    /\ unit.pc = "new"
    /\ \E outs \in ClickCourses :
            unit' = [pc |-> "done", fn |-> "safe_click", outs |-> outs,
                     result |-> SafeClick(outs)]
    /\ UNCHANGED <<doc, game, now, pc, games_count, game_index,
                   processed_count, evaluated, timeCell, notified, cur, submit,
                   entry, run, fields>>

SafeSendKeysCall ==
    /\ unit.pc = "new"
    /\ \E old \in FieldVals, keys \in TipKeys, fault \in WriteFaults :
            unit' = [pc |-> "done", fn |-> "safe_send_keys", old |-> old,
                     keys |-> keys, fault |-> fault,
                     result |-> SafeSendKeys(old, keys, fault, "clear",
                                             "send_keys")]
    /\ UNCHANGED <<doc, game, now, pc, games_count, game_index,
                   processed_count, evaluated, timeCell, notified, cur, submit,
                   entry, run, fields>>

\* _process_single_game on a row whose two inputs are found and whose value
\* attributes _is_already_tipped reads through safe_get_attribute
IsAlreadyTippedCall ==
    /\ unit.pc = "new"
    /\ \E home \in AttributeReads, away \in AttributeReads :
       \E in \in {x \in AnswersEnter("datarow") : x.pair = <<"", "">>} :
        LET home_value == OrEmpty(SafeGetAttribute(home))
            away_value == OrEmpty(SafeGetAttribute(away))
            seen == [in EXCEPT !.pair = <<home_value, away_value>>]
        IN  unit' = [pc |-> "done", fn |-> "is_already_tipped",
                     home |-> home, away |-> away, in |-> seen,
                     tipped |-> IsAlreadyTipped(home_value, away_value),
                     call |-> ProcessSingleGame(1, seen, timeCell, now)]
    /\ UNCHANGED <<doc, game, now, pc, games_count, game_index,
                   processed_count, evaluated, timeCell, notified, cur, submit,
                   entry, run, fields>>

NextSelenium ==
    SafeFindElementCall \/ SafeClickCall \/ SafeSendKeysCall
        \/ IsAlreadyTippedCall

SpecSelenium == InitSelenium /\ [][NextSelenium]_vars

\* ------------------------------------------- the Game record on its own
\* quote tokens handed to Game(): numbers, a number between blanks, zero, a
\* negative number, the words float() reads as infinity and nan, a word
GameTokens ==
    {<<w>> : w \in {"1.50", "6.00", "0.00", "-1.50", "inf", "nan", "abc"}}
    \cup {<<" ", "3.20", " ">>}

InitGame ==
    /\ NoRun
    /\ unit = [pc |-> "new"]

\* Game(home_team, away_team, quotes, game_time) and game.calculate_tip(),
\* as lines 174-175 of game_tipper.py call them
GameCall ==
    /\ unit.pc = "new"
    /\ \E n \in 1..MaxQuotes :
       \E quotes \in [1..n -> GameTokens], r \in {0, 1} :
        LET raised == ValidateQuotesRaises(quotes)
            self_quotes == IF raised THEN <<>> ELSE ValidateQuotes(quotes)
            tip_raised == ~raised /\ GameCalculateTipRaises(self_quotes)
        IN  unit' = [pc |-> "done", fn |-> "Game", quotes |-> quotes,
                     raised |-> raised, self_quotes |-> self_quotes,
                     random_goal |-> r, tip_raised |-> tip_raised,
                     tip |-> IF raised \/ tip_raised THEN <<>>
                             ELSE GameCalculateTip(self_quotes, r)]
    /\ UNCHANGED <<doc, game, now, pc, games_count, game_index,
                   processed_count, evaluated, timeCell, notified, cur, submit,
                   entry, run, fields>>

NextGame == GameCall

SpecGame == InitGame /\ [][NextGame]_vars

\* ------------------------------------------ the health counters, two threads
\* HealthStatus as the main thread writes it and the thread of the health
\* server (HealthMonitor.start_health_server, a daemon thread running
\* serve_forever) reads it, without a lock: a statement of one thread can
\* fall between any two statements of the other.
\*   main - position of the main thread in record_successful_run /
\*          record_failed_run
\*   http - position of the server thread in get_status
\*   snap - the values get_status has read so far; -1: not read yet
NoSnap == [total_runs |-> 0 - 1, successful_runs |-> 0 - 1,
           failed_runs |-> 0 - 1, rate_successful |-> 0 - 1,
           success_rate |-> 0 - 1]

InitHealth ==
    /\ NoRun
    /\ unit = [pc |-> "health", total_runs |-> 0, successful_runs |-> 0,
               failed_runs |-> 0, main |-> "running", http |-> "serving",
               snap |-> NoSnap]

HealthUnchanged ==
    UNCHANGED <<doc, game, now, pc, games_count, game_index, processed_count,
                evaluated, timeCell, notified, cur, submit, entry, run, fields>>

\* success_rate of get_status (line 74), in hundredths of a percent
SuccessRate(successful_runs, total_runs) ==
    Round(successful_runs * 10000, IF total_runs > 1 THEN total_runs ELSE 1)

\* record_successful_run, line 41: self.successful_runs += 1
RecordSuccessfulRunCounts ==
    /\ unit.pc = "health" /\ unit.main = "running"
    /\ unit.total_runs < MaxRuns
    /\ unit' = [unit EXCEPT !.successful_runs = @ + 1, !.main = "successful"]
    /\ HealthUnchanged

\* record_failed_run, line 48: self.failed_runs += 1
RecordFailedRunCounts ==
    /\ unit.pc = "health" /\ unit.main = "running"
    /\ unit.total_runs < MaxRuns
    /\ unit' = [unit EXCEPT !.failed_runs = @ + 1, !.main = "failed"]
    /\ HealthUnchanged

\* record_successful_run, line 42, and record_failed_run, line 49:
\* self.total_runs += 1
RecordRunTotals ==
    /\ unit.pc = "health" /\ unit.main \in {"successful", "failed"}
    /\ unit' = [unit EXCEPT !.total_runs = @ + 1, !.main = "running"]
    /\ HealthUnchanged

\* a request for /health or /status is handled: get_status is entered
GetStatusEnter ==
    /\ unit.pc = "health" /\ unit.http = "serving"
    /\ unit' = [unit EXCEPT !.http = "stats", !.snap = NoSnap]
    /\ HealthUnchanged

\* get_status, lines 71-73: the three counters are read one after the other
GetStatusReads ==
    /\ unit.pc = "health"
    /\ \/ /\ unit.http = "stats"
          /\ unit' = [unit EXCEPT !.http = "total_read",
                            !.snap.total_runs = unit.total_runs]
       \/ /\ unit.http = "total_read"
          /\ unit' = [unit EXCEPT !.http = "successful_read",
                            !.snap.successful_runs = unit.successful_runs]
       \/ /\ unit.http = "successful_read"
          /\ unit' = [unit EXCEPT !.http = "failed_read",
                            !.snap.failed_runs = unit.failed_runs]
    /\ HealthUnchanged

\* get_status, line 74: self.successful_runs is read, then self.total_runs,
\* and the rate is computed; the dictionary is returned
GetStatusRate ==
    /\ unit.pc = "health"
    /\ \/ /\ unit.http = "failed_read"
          /\ unit' = [unit EXCEPT !.http = "rate",
                            !.snap.rate_successful = unit.successful_runs]
       \/ /\ unit.http = "rate"
          /\ unit' = [unit EXCEPT !.http = "returned",
                            !.snap.success_rate =
                                SuccessRate(unit.snap.rate_successful,
                                            unit.total_runs)]
    /\ HealthUnchanged

\* the response is written; the server waits for the next request
GetStatusDone ==
    /\ unit.pc = "health" /\ unit.http = "returned"
    /\ unit' = [unit EXCEPT !.http = "serving"]
    /\ HealthUnchanged

NextHealth ==
    RecordSuccessfulRunCounts \/ RecordFailedRunCounts \/ RecordRunTotals
        \/ GetStatusEnter \/ GetStatusReads \/ GetStatusRate \/ GetStatusDone

SpecHealth == InitHealth /\ [][NextHealth]_vars

\* --------------------------------------------- main() and KicktippBot.run
\* how a statement of run() can end: it completes, it raises the exception
\* its callee wraps every failure in, it raises another Exception, or the
\* user interrupts it (KeyboardInterrupt is no Exception)
StepOutcomes(step) ==
    CASE step = "create_driver" -> {"ok", "Exception", "KeyboardInterrupt"}
      [] step = "login" -> {"ok", "AuthenticationError", "KeyboardInterrupt"}
      [] step = "tip_all_games" ->
            {"ok", "GameTippingError", "KeyboardInterrupt"}

\* a KicktippBot before run(): no driver, nothing recorded
\*   driver    - self.driver: "none", "created", "quit"
\*   recorded  - the calls of record_successful_run / record_failed_run
\*   completed - how many of create_driver, login, tip_all_games returned
\*   exc       - the exception a statement of the try block raised
\*   reraised  - the exception a handler raised again
\*   raised    - the exception that left run()
NoBot == [driver |-> "none", recorded |-> <<>>, completed |-> 0,
          exc |-> "none", reraised |-> "none", raised |-> "none"]

\* main before its first statement; interval is Config.RUN_EVERY_X_MINUTES,
\* the minutes between two cycles, 0 for one cycle
InitMain ==
    /\ NoRun
    /\ \E interval \in {0 - 1, 0, 1, 2} :
            unit = [pc |-> "main_start", interval |-> interval,
                    server |-> "none", cycles |-> 0, bot |-> NoBot,
                    last |-> "none", remaining |-> 0, interrupted |-> FALSE]

\* main, lines 149-151: start_health_server; a server that cannot be
\* created is logged and self.server stays None (health.py:162-175)
StartHealthServer ==
    /\ unit.pc = "main_start"
    /\ \E started \in BOOLEAN :
            unit' = [unit EXCEPT !.pc = "loop_top",
                        !.server = IF started THEN "running" ELSE "none"]
    /\ HealthUnchanged

\* main, lines 154-163, and run_bot: a cycle starts with a new KicktippBot
StartCycle ==
    /\ unit.pc = "loop_top"
    /\ unit.cycles < MaxCycles
    /\ unit' = [unit EXCEPT !.pc = "create_driver", !.cycles = @ + 1,
                            !.bot = NoBot]
    /\ HealthUnchanged

\* run, lines 60-77: create_driver, login, tip_all_games, one after the other
RunStep ==
    /\ unit.pc \in {"create_driver", "login", "tip_all_games"}
    /\ \E outcome \in StepOutcomes(unit.pc) :
            IF outcome = "ok"
            THEN unit' = [unit EXCEPT
                    !.pc = CASE unit.pc = "create_driver" -> "login"
                             [] unit.pc = "login" -> "tip_all_games"
                             [] unit.pc = "tip_all_games" -> "record_success",
                    !.bot.completed = @ + 1,
                    !.bot.driver = IF unit.pc = "create_driver"
                                   THEN "created" ELSE @]
            ELSE unit' = [unit EXCEPT
                    !.pc = IF outcome = "KeyboardInterrupt"
                           THEN "run_finally" ELSE "run_except",
                    !.bot.exc = outcome]
    /\ HealthUnchanged

\* run, lines 80-81: health_status.record_successful_run()
RecordSuccessfulRun ==
    /\ unit.pc = "record_success"
    /\ unit' = [unit EXCEPT !.pc = "run_finally",
                            !.bot.recorded = Append(@, "successful")]
    /\ HealthUnchanged

\* variant: the handlers of run recording the failure and not raising again
RunExceptSwallows ==
    /\ unit.pc = "run_except"
    /\ unit' = [unit EXCEPT !.pc = "run_finally",
                            !.bot.recorded = Append(@, "failed")]
    /\ HealthUnchanged

\* run, lines 83-94: each handler calls record_failed_run and raises again
RunExcept ==
    /\ unit.pc = "run_except"
    /\ unit' = [unit EXCEPT !.pc = "run_finally",
                            !.bot.recorded = Append(@, "failed"),
                            !.bot.reraised = unit.bot.exc]
    /\ HealthUnchanged

\* run, lines 95-105: _cleanup calls driver.quit() when there is a driver
\* (what quit() raises is logged); the exception in flight leaves run
Cleanup ==
    /\ unit.pc = "run_finally"
    /\ unit' = [unit EXCEPT
            !.pc = "cycle_end",
            !.bot.driver = IF @ = "created" THEN "quit" ELSE @,
            !.bot.raised = IF unit.bot.exc = "KeyboardInterrupt"
                           THEN "KeyboardInterrupt" ELSE unit.bot.reraised]
    /\ HealthUnchanged

\* variant: main leaving the loop after a cycle that failed
CycleEndBreaksOnFailure ==
    /\ unit.pc = "cycle_end"
    /\ unit' = IF unit.bot.raised = "none"
               THEN [unit EXCEPT !.pc = "after_cycle", !.last = "completed"]
               ELSE IF unit.bot.raised = "KeyboardInterrupt"
               THEN [unit EXCEPT !.pc = "main_finally", !.interrupted = TRUE]
               ELSE [unit EXCEPT !.pc = "main_finally", !.last = "failed"]
    /\ HealthUnchanged

\* main, lines 165-174: run_bot returned, or KeyboardInterrupt breaks the
\* loop, or any other Exception is logged
CycleEnd ==
    /\ unit.pc = "cycle_end"
    /\ unit' = IF unit.bot.raised = "none"
               THEN [unit EXCEPT !.pc = "after_cycle", !.last = "completed"]
               ELSE IF unit.bot.raised = "KeyboardInterrupt"
               THEN [unit EXCEPT !.pc = "main_finally", !.interrupted = TRUE]
               ELSE [unit EXCEPT !.pc = "after_cycle", !.last = "failed"]
    /\ HealthUnchanged

\* main, lines 177-183: an interval of 0 returns, any other starts the wait
AfterCycle ==
    /\ unit.pc = "after_cycle"
    /\ unit' = IF unit.interval = 0
               THEN [unit EXCEPT !.pc = "main_finally"]
               ELSE [unit EXCEPT !.pc = "sleeping",
                                 !.remaining = Max0(unit.interval)]
    /\ HealthUnchanged

\* main, lines 184-185: the wait, a step at a time; the loop goes round
\* when nothing remains
Sleep ==
    /\ unit.pc = "sleeping"
    /\ unit' = IF unit.remaining > 0
               THEN [unit EXCEPT !.remaining = @ - 1]
               ELSE [unit EXCEPT !.pc = "loop_top"]
    /\ HealthUnchanged

\* main, lines 188-189: the user interrupts the wait
Interrupt ==
    /\ unit.pc = "sleeping"
    /\ unit' = [unit EXCEPT !.pc = "main_finally", !.interrupted = TRUE]
    /\ HealthUnchanged

\* main, lines 190-193, and stop_health_server (health.py:177-182)
StopHealthServer ==
    /\ unit.pc = "main_finally"
    /\ unit' = [unit EXCEPT !.pc = "exited",
                    !.server = IF @ = "running" THEN "stopped" ELSE @]
    /\ HealthUnchanged

\* the statements of the main thread
MainThread ==
    StartHealthServer \/ StartCycle \/ RunStep \/ RecordSuccessfulRun
        \/ RunExcept \/ Cleanup \/ CycleEnd \/ AfterCycle \/ Sleep
        \/ StopHealthServer

NextMain == MainThread \/ Interrupt

SpecMain == InitMain /\ [][NextMain]_vars

\* the main thread keeps running; nobody has to interrupt it
SpecMainLive == InitMain /\ [][NextMain]_vars /\ WF_vars(MainThread)

\* ------------------------------------- _accept_terms_and_conditions
\* GameTipper._accept_terms_and_conditions (lines 397-436), called with the
\* driver in context ("main" or "iframe").
\*   iframe - the lookup of the SourcePoint iframe (lines 402-407); a
\*            safe_find_element call hands back the element or None, or
\*            raises an exception that is no WebDriverException
\*   switch - switch_to.frame(iframe) goes through (line 412)
\*   button - the lookup of the accept button (lines 415-420)
\*   click  - what safe_click returns (line 422)
\*   back   - switch_to.default_content() goes through (line 426)
\*   again  - switch_to.default_content() of the handler goes through
\*            (line 432); what it raises is passed over (lines 433-434)
\* course: the statements executed, in order
AcceptTermsAndConditions(context, iframe, switch, button, click, back, again) ==
    LET handler(c, course) ==
            [raised |-> FALSE,
             context |-> IF again THEN "main" ELSE c,
             course |-> course \o <<IF again THEN "handler_back"
                                               ELSE "handler_back_raises">>]
    IN  IF iframe = "raises"
        THEN [raised |-> TRUE, context |-> context,
              course |-> <<"iframe_raises">>]
        ELSE IF iframe = "none"
        THEN [raised |-> FALSE, context |-> context,
              course |-> <<"no_iframe">>]
        ELSE IF ~switch
        THEN handler(context, <<"iframe", "switch_raises">>)
        ELSE IF button = "raises"
        THEN handler("iframe", <<"iframe", "switch", "button_raises">>)
        ELSE LET course == <<"iframe", "switch">>
                    \o (IF button = "none" THEN <<"no_button">>
                        ELSE IF click THEN <<"button", "click">>
                        ELSE <<"button", "click_failed">>)
             IN  IF back
                 THEN [raised |-> FALSE, context |-> "main",
                       course |-> course \o <<"back">>]
                 ELSE handler("iframe", course \o <<"back_raises">>)

\* the driver on the prediction page (tip_all_games, lines 44-47): the
\* context is the main document
\*   calls  - the calls of _accept_terms_and_conditions made
\*   access - the context the last row access or submit ran against
InitTerms ==
    /\ NoRun
    /\ unit = [pc |-> "page", calls |-> 0, context |-> "main",
               course |-> <<>>, access |-> "none"]

\* tip_all_games, lines 50 and 72: a call of _accept_terms_and_conditions
AcceptTermsCall ==
    /\ unit.pc = "page"
    /\ unit.calls < MaxCalls
    /\ \E iframe, button \in {"element", "none", "raises"},
          switch, click, back, again \in BOOLEAN :
        LET res == AcceptTermsAndConditions(unit.context, iframe, switch,
                                            button, click, back, again)
        IN  unit' = [unit EXCEPT
                        !.pc = IF res.raised THEN "raised" ELSE "returned",
                        !.calls = @ + 1,
                        !.context = res.context,
                        !.course = res.course]
    /\ HealthUnchanged

\* tip_all_games, lines 53-67 and 75-76: the rows are counted and read and
\* the form is submitted in the context the driver is in
RowAccess ==
    /\ unit.pc = "returned"
    /\ unit' = [unit EXCEPT !.pc = "page", !.access = unit.context]
    /\ HealthUnchanged

NextTerms == AcceptTermsCall \/ RowAccess

SpecTerms == InitTerms /\ [][NextTerms]_vars

\* ------------------------------------------------ vocabulary of claims
\* the call of this iteration made access or command e
Has(e) == \E k \in 1..Len(cur.effects) : cur.effects[k] = e

WriteEffects == {"clear_home", "send_home", "clear_away", "send_away"}

\* the call of this iteration changed no input, read no quotes, notified nobody
Untouched ==
    /\ cur.pair = cur.pre
    /\ cur.events = <<>>
    /\ \A e \in WriteEffects \cup {"quotes", "notify"} : ~Has(e)

\* a call of _process_single_game has ended in this iteration
Called == cur.idx # 0

\* the call read both inputs' values
ReadValues == Called /\ cur.pre[1] \in FieldVals /\ cur.pre[2] \in FieldVals

\* the call resolved the row's kickoff time
HasGameTime == Called /\ ~cur.raised /\ Len(cur.effects) >= 2

\* number of times row i was handed to _process_single_game
TimesEvaluated(i) == Cardinality({k \in 1..Len(evaluated) : evaluated[k] = i})

\* the row loop has ended and _submit_all_tips was called
ScanDone == submit.calls > 0

\* the run has ended, returning or raising
Ended == pc \in {"returned", "raised"}

TypeOK ==
    /\ pc \in {"idle", "scanning", "row_done", "returned", "raised"}
    /\ now \in 0..MaxNow
    /\ games_count \in 0..ScanMax
    /\ game_index \in 0..ScanMax
    /\ processed_count \in 0..ScanMax
    /\ notified \in 0..ScanMax
    /\ submit.calls \in 0..1

\* the call of this iteration handed over a notification whose delivery failed
DeliveryFailed ==
    Called /\ cur.events # <<>> /\ cur.events[1].delivery = "fails"

\* _get_games_count found the table tippabgabeSpiele
TableLocated == entry.table = "found"

\* the row loop of this cycle was entered
ScanStarted == games_count > 0

\* the first cycle left row i with both inputs present and non-empty
LeftFilled(i) ==
    /\ fields[i] # UnreadPair
    /\ CanonPair(fields[i]) = <<"7", "7">>

\* the first cycle left row i without an open pair of inputs
LeftClosed(i) ==
    /\ fields[i] # UnreadPair
    /\ CanonPair(fields[i]) \notin OpenPairs

\* what tip_all_games returns (`-> None`; `return` at line 59, the end of
\* the body otherwise): no report, the count is only logged (line 75)
RunReport == "None"

\* the class of a row's outcome by the line the code logs for it: info and
\* debug lines are skips, warning and error lines are errors
OutcomeClass(outcome) ==
    CASE outcome = "tipped" -> "processed"
      [] outcome \in {"no_row", "no_tip_fields", "already_tipped", "too_early"}
            -> "skipped"
      [] outcome \in {"raised", "no_game_info", "no_quotes", "game_error",
                      "enter_failed"} -> "error"
      [] OTHER -> "none"

\* ---------------------------------------------------------------- claims
\* C1  Row isolation: once the scan has begun, a failure or an exception in a
\*     row never aborts it: when the run ends every row of the scan range
\*     1..games_count-1 has been evaluated and the submit step was attempted.
C1_RowIsolation ==
    (Ended /\ games_count > 0) =>
        /\ \A i \in 1..(games_count - 1) : TimesEvaluated(i) = 1
        /\ ScanDone

\* C2  Coverage: when the scan of a located table is over, every data row of
\*     the table has been evaluated exactly once.
C2_Coverage ==
    ScanDone => \A i \in DataRows : TimesEvaluated(i) = 1

\* C3  Ordering: rows are evaluated in strictly ascending document order, no
\*     row before one that precedes it, none twice.
C3_AscendingOrder ==
    \A j, k \in 1..Len(evaluated) : j < k => evaluated[j] < evaluated[k]

C3_Witness ==
    /\ Len(evaluated) >= 2
    /\ pc = "row_done"
    /\ cur.idx = evaluated[Len(evaluated)]

\* C4  With the overwrite flag false, a row whose two prediction inputs are
\*     both read non-empty is skipped as already tipped: no input is cleared or
\*     written, no quotes are extracted, nothing is notified, and the row is
\*     not counted as processed.
C4_AlreadyTippedSkipped ==
    (ReadValues /\ ~OVERWRITE_TIPS /\ cur.pre[1] # "" /\ cur.pre[2] # "") =>
        /\ cur.outcome = "already_tipped"
        /\ ~cur.ret
        /\ Untouched

C4_Witness ==
    /\ ReadValues /\ ~OVERWRITE_TIPS
    /\ cur.pre = <<"7", "7">>
    /\ cur.outcome = "already_tipped"
    /\ ~cur.malformed
    /\ ShouldTipGame(cur.game_time, now)

\* C5  With the overwrite flag true, a row whose two prediction inputs are
\*     both non-empty is not skipped as already predicted.
C5_OverwriteNotSkipped ==
    (ReadValues /\ OVERWRITE_TIPS /\ cur.pre[1] # "" /\ cur.pre[2] # "") =>
        cur.outcome # "already_tipped"

\* C6  A row whose kickoff time is not strictly later than now is skipped: no
\*     tip is written to it and nothing is notified for it.
C6_StartedGameSkipped ==
    (HasGameTime /\ ~(cur.game_time > now)) =>
        /\ ~cur.ret
        /\ cur.events = <<>>
        /\ \A e \in WriteEffects : ~Has(e)

\* C7  A row whose time until kickoff exceeds TIME_UNTIL_GAME is skipped as
\*     too early and never written; at exactly TIME_UNTIL_GAME the rule does
\*     not skip it.
C7_TooEarlySkipped ==
    /\ (HasGameTime /\ cur.game_time - now > TIME_UNTIL_GAME) =>
            /\ ~cur.ret
            /\ Untouched
            /\ Has("timing") => cur.outcome = "too_early"
    /\ (HasGameTime /\ cur.game_time - now = TIME_UNTIL_GAME) =>
            cur.outcome # "too_early"

C7_Witness ==
    /\ HasGameTime
    /\ cur.game_time - now > TIME_UNTIL_GAME
    /\ cur.outcome = "too_early"
    /\ cur.pre = <<"", "">>
    /\ ~cur.malformed

C9_RuleOrder ==
    (Called /\ ~cur.raised /\ Has("quotes")) =>
        /\ cur.pre \in OpenPairs
        /\ cur.game_time > now
        /\ ~(cur.game_time - now > TIME_UNTIL_GAME)

\* C10 One notification is emitted for a row exactly when both inputs were
\*     written in this run, after the writes, with the row's kickoff time, the
\*     team names, the 3 quotes and the tip written; none for a row skipped
\*     or failed.
C10_NotifyIffWritten ==
    /\ Called =>
        /\ Len(cur.events) <= 1
        /\ (Len(cur.events) = 1) <=> (Has("send_home") /\ Has("send_away"))
        /\ (Len(cur.events) = 1) <=> cur.ret
        /\ Len(cur.events) = 1 =>
            /\ cur.effects[Len(cur.effects)] = "notify"
            /\ \A k \in 1..(Len(cur.effects) - 1) : cur.effects[k] # "notify"
            /\ cur.events[1].time = cur.game_time
            /\ cur.events[1].home = Strip(TeamHtml(cur.teams)[1])
            /\ cur.events[1].away = Strip(TeamHtml(cur.teams)[2])
            /\ Len(cur.events[1].quotes) = 3
            /\ cur.pair = <<Str(cur.events[1].tip[1]), Str(cur.events[1].tip[2])>>
    /\ notified = processed_count

C10_Witness ==
    /\ Called
    /\ cur.outcome = "tipped"
    /\ Len(cur.events) = 1
    /\ cur.pair = <<"4", "1">>

\* C11 A failed notification delivery does not feed back: the row is still
\*     counted as processed, each sink is asked once, the call returns True
\*     without raising, and the loop goes on to the next index (and from there
\*     to the later rows and the submit step) keeping no trace of the failure.
C11_DeliveryFailureAbsorbed ==
    /\ [](DeliveryFailed =>
            /\ cur.ret /\ ~cur.raised /\ cur.outcome = "tipped"
            /\ Len(cur.events) = 1 /\ cur.events[1].posts = 1
            /\ pc = "row_done"
            /\ notified = processed_count /\ processed_count > 0)
    /\ [][DeliveryFailed =>
            /\ pc' = "scanning" /\ cur' = NoCall
            /\ game_index' = game_index + 1
            /\ processed_count' = processed_count]_vars

C11_Witness ==
    /\ DeliveryFailed
    /\ cur.outcome = "tipped"
    /\ cur.idx = 2
    /\ processed_count = 1

\* C12 In every run that located the table, when the run ends
\*     _submit_all_tips has been called exactly once, after every row of the
\*     scan range was evaluated; once it has been called no row is evaluated.
C12_SubmitOnceAfterScan ==
    /\ [](submit.calls > 0 =>
            \A i \in 1..(games_count - 1) : TimesEvaluated(i) = 1)
    /\ []((Ended /\ TableLocated) => submit.calls = 1)
    /\ [][submit.calls > 0 => evaluated' = evaluated /\ cur' = cur]_vars

\* C13 In _submit_all_tips the JavaScript click is made only when safe_click
\*     on the submit control returned False, and then once; when safe_click
\*     returned True it is not made.
C13_FallbackOnlyAfterPrimaryFailed ==
    /\ submit.fallback <= 1
    /\ submit.fallback = 1 => (submit.primary = 1 /\ ~submit.click)
    /\ (submit.primary = 1 /\ submit.click) => submit.fallback = 0
    /\ (submit.primary = 1 /\ ~submit.click) => submit.fallback = 1

C13_Witness ==
    /\ submit.primary = 1 /\ ~submit.click /\ submit.clicks = 2
    /\ submit.fallback = 1 /\ submit.js
    /\ pc = "returned"
    /\ Len(evaluated) = 2

\* C14 When the submit control is not found, or safe_click and the
\*     JavaScript click both fail, tip_all_games raises: a run whose scan
\*     ended never returns normally without a submission that went through.
C14_SubmitFailureRaises ==
    /\ (ScanDone /\ (~submit.button \/ (~submit.click /\ ~submit.js)))
            => pc = "raised"
    /\ (pc = "returned" /\ games_count > 0)
            => (submit.calls = 1 /\ submit.button
                    /\ (submit.click \/ submit.js))

C14_Witness ==
    /\ ScanDone /\ submit.button
    /\ ~submit.click /\ submit.clicks = DEFAULT_RETRY_COUNT
    /\ submit.fallback = 1 /\ ~submit.js
    /\ pc = "raised"
    /\ Len(evaluated) = 2

\* C15 When the table tippabgabeSpiele cannot be located, tip_all_games
\*     raises to its caller instead of returning normally.
C15_NoTableRaises ==
    (Ended /\ entry.table = "not_found") => pc = "raised"

\* C16 tip_all_games raises only when the submission failed or the table
\*     could not be located; a page-load timeout, a driver error while
\*     navigating, the terms dialog and the faults of a row are absorbed.
C16_RaisesOnlyOnSubmitOrTable ==
    pc = "raised" => (submit.raised \/ entry.table = "not_found")

\* C17 (as stated) Idempotence: with the overwrite flag false the second of
\*     two cycles, every row of which it finds with the fields as the first
\*     cycle left them, writes no input, notifies nobody and counts no row as
\*     processed.
C17_SecondRunWritesNothing ==
    (/\ run = "second" /\ ~OVERWRITE_TIPS
     /\ \A k \in 1..Len(evaluated) : fields[evaluated[k]] # UnreadPair) =>
        /\ processed_count = 0
        /\ notified = 0
        /\ \A e \in WriteEffects : ~Has(e)

\* C17 (amended) With the overwrite flag false, a row the first cycle left
\*     with both inputs non-empty is skipped by the second cycle: nothing is
\*     written to it, it is not notified and not counted; and a second cycle
\*     all of whose rows were left without an open pair of inputs writes
\*     nothing, notifies nobody and counts processed_count = 0.
C17_SecondRunSkipsFilledRows ==
    (run = "second" /\ ~OVERWRITE_TIPS) =>
        /\ (Called /\ LeftFilled(cur.idx)) =>
                /\ ~cur.ret
                /\ cur.events = <<>>
                /\ \A e \in WriteEffects \cup {"quotes", "notify"} : ~Has(e)
                /\ (~cur.raised /\ Has("read_values"))
                        => cur.outcome = "already_tipped"
        /\ (\A k \in 1..Len(evaluated) : LeftClosed(evaluated[k])) =>
                /\ processed_count = 0
                /\ notified = 0
                /\ \A e \in WriteEffects : ~Has(e)

C17_Witness ==
    /\ run = "second" /\ ~OVERWRITE_TIPS
    /\ Called /\ cur.idx = 2
    /\ fields[1] = <<"7", "7">>
    /\ fields[2] = <<"4", "1">>
    /\ cur.pre = <<"4", "1">>
    /\ cur.outcome = "already_tipped"
    /\ ScanStarted

C19_GoalsNonNegative ==
    game.pc = "done" =>
        /\ Len(game.tip) = 2
        /\ game.tip[1] \in Nat
        /\ game.tip[2] \in Nat

C19_Witness ==
    /\ game.pc = "done"
    /\ game.home_quote = 0 - 500 /\ game.away_quote = 300
    /\ game.random_goal = 0
    /\ game.tip = <<2, 0>>

\* C20 For all quote pairs with |home - away| < 0.25 calculate_tip takes the
\*     draw branch and returns (r, r) for the drawn random goal r; at
\*     |home - away| = 0.25 the draw branch is not taken.
C20_DrawBranch ==
    game.pc = "done" =>
        /\ Abs(game.home_quote - game.away_quote) < 25 =>
                /\ game.branch = "draw"
                /\ game.tip = <<game.random_goal, game.random_goal>>
                /\ game.tip \in {<<0, 0>>, <<1, 1>>}
        /\ Abs(game.home_quote - game.away_quote) = 25 =>
                game.branch # "draw"

C20_Witness ==
    /\ game.pc = "done"
    /\ game.home_quote = 125 /\ game.away_quote = 100
    /\ game.branch = "away"
    /\ game.random_goal = 1

\* rounding of the non-negative rational n / d with halves away from zero
RoundHalfAway(n, d) == (2 * n + d) \div (2 * d)

\* C21 For all quote pairs with |diff| >= 0.25 (diff = home - away) and random
\*     goal r, calculate_tip returns (R + r, r) when diff < 0 and (r, R + r)
\*     when diff > 0, where R is |diff| * c rounded half away from zero and
\*     c = 0.3 if |diff| > 7 else 0.75.
C21_RoundsHalfAwayFromZero ==
    LET diff == game.home_quote - game.away_quote
        c == IF Abs(diff) > 700 THEN 30 ELSE 75
        R == RoundHalfAway(Abs(diff) * c, 10000)
        r == game.random_goal
    IN  (game.pc = "done" /\ Abs(diff) >= 25) =>
            /\ diff < 0 => game.tip = <<R + r, r>>
            /\ diff > 0 => game.tip = <<r, R + r>>

\* draw quotes a game could have instead, in hundredths
DrawQuoteValues == {100, 300, 320, 900}

\* C22 The tip does not depend on the draw quote: two games with the same
\*     home-win and away-win quotes and the same random goal get the same
\*     tip whatever their draw quotes are, and the draw quote goes to the
\*     notification as the quotes link showed it.
C22_DrawQuoteIgnored ==
    (Called /\ cur.events # <<>>) =>
        LET event == cur.events[1]
            shown == SelectSeq(cur.quotes_text, LAMBDA piece :
                            piece \notin {" ", "/", "|", "Quote: "})
        IN  /\ event.quotes[2] = <<shown[2]>>
            /\ event.quotes = <<<<shown[1]>>, <<shown[2]>>, <<shown[3]>>>>
            /\ \E r \in {0, 1} : \A d \in DrawQuoteValues :
                    GameCalculateTip(
                        <<FloatOfWord(shown[1]), Finite(d),
                          FloatOfWord(shown[3])>>, r)
                    = event.tip

C22_Witness ==
    /\ Called /\ cur.outcome = "tipped"
    /\ cur.quotes_text = <<"Quote: ">>
                            \o Joined(<<"1.50", "3.20", "6.00">>, Slash)
    /\ cur.events[1].quotes[2] = <<"3.20">>
    /\ cur.events[1].tip = <<4, 1>>
    /\ GameCalculateTip(<<Finite(150), Finite(900), Finite(600)>>, 1) = <<4, 1>>

\* the text was put together with a separator the parsers know
Recognised(t) ==
    t.sep \in {<<>>, Slash, Bar, Slash \o <<" ">>, Bar \o <<" ">>}

\* the text splits into exactly three tokens
SplitsInThree(t) == t.n = 3 /\ Recognised(t)

Labelled(anchors, label) ==
    {k \in 1..Len(anchors) :
        anchors[k].label.found /\ StripText(anchors[k].label.text) = label}

\* the anchor shows a value
HasValue(anchor) == anchor.value.found /\ StripText(anchor.value.text) # <<>>

\* each of the labels 1, X, 2 stands on at most one anchor
LabelsOnce(anchors) ==
    \A k \in 1..3 : Cardinality(Labelled(anchors, QuoteLabels[k])) <= 1

\* each of the labels 1, X, 2 stands on an anchor that shows a value
Complete(anchors) ==
    \A k \in 1..3 : \E at \in Labelled(anchors, QuoteLabels[k]) :
        HasValue(anchors[at])

\* C24 Structured quote extraction is order-independent: for every order of
\*     the three labelled entries 1, X, 2 in the source extract_quotes
\*     returns [value of 1, value of X, value of 2]; if one of the three
\*     labels is missing or has an empty value the structured shape yields
\*     no result and only the legacy shape can still succeed.
C24_StructuredOrder ==
    (unit.pc = "done" /\ unit.row.container) =>
        LET anchors == unit.row.anchors
            got == unit.extracted
        IN  /\ (LabelsOnce(anchors) /\ Complete(anchors)) =>
                /\ got.shape = "structured"
                /\ \A k \in 1..3 :
                        \E at \in Labelled(anchors, QuoteLabels[k]) :
                            got.quotes[k] = StripText(anchors[at].value.text)
                /\ got.quotes = <<<<"1.50">>, <<"3.20">>, <<"6.00">>>>
            /\ (LabelsOnce(anchors) /\ ~Complete(anchors)) =>
                /\ got.shape # "structured"
                /\ got.shape = "legacy" <=> unit.row.link
                /\ got.shape = "legacy" =>
                        got.quotes = <<<<"2.10">>, <<"3.00">>, <<"2.00">>>>
            /\ got.shape = "structured" =>
                    \A k \in 1..3 :
                        \E at \in Labelled(anchors, QuoteLabels[k]) :
                            got.quotes[k] = StripText(anchors[at].value.text)

C24_Witness ==
    /\ unit.pc = "done" /\ unit.row.container
    /\ unit.row.anchors = <<QuoteEntry(<<"2">>, <<"6.00">>),
                            QuoteEntry(<<"1">>, <<"1.50">>),
                            QuoteEntry(<<"X">>, <<"3.20">>)>>
    /\ unit.extracted = [shape |-> "structured",
                         quotes |-> <<<<"1.50">>, <<"3.20">>, <<"6.00">>>>]

\* the kickoff time last observed up to row i of the table: that of the
\* nearest row at or above i whose time cell is visible and parses, the
\* clock where there is none
RECURSIVE LastObserved(_, _, _)
LastObserved(table, i, clock) ==
    IF i < 1 THEN clock
    ELSE IF table[i].cell.kind = "ok" /\ ~table[i].cell.hidden
    THEN table[i].cell.t
    ELSE LastObserved(table, i - 1, clock)

\* C25 For every data row whose own time cell is hidden, the effective
\*     kickoff time equals the most recently observed kickoff time (that of
\*     the nearest preceding header or visible-time row), whatever the
\*     hidden cell contains.
C25_HiddenCellIgnored ==
    unit.pc = "scan" =>
        \A i \in 1..unit.row_index :
            (/\ unit.table[i].cls = "datarow"
             /\ unit.table[i].cell.hidden
             /\ LastObserved(unit.table, i - 1, 0 - 1) >= 0) =>
                /\ unit.game_times[i] = LastObserved(unit.table, i - 1, now)
                /\ (i = unit.row_index /\ unit.extract.fallback_time >= 0) =>
                        unit.extract.datarow = unit.extract.fallback_time

\* the cell is visible and its text parses
VisibleTime(cell) == cell.kind = "ok" /\ ~cell.hidden

\* C26 Within one run, once lastKnownKickoffTime is set it is only ever
\*     overwritten by a time value that occurs later in the document, comes
\*     from a visible cell and was parsed successfully; an unparsable or
\*     hidden time value never changes it and it is never replaced by a
\*     value that was not read from the document.
C26_CarriedTimeOverwrite ==
    unit.pc = "scan" =>
        /\ \A i \in 2..unit.row_index :
                (/\ LastObserved(unit.table, i - 1, 0 - 1) >= 0
                 /\ unit.game_times[i] # unit.game_times[i - 1]) =>
                    /\ VisibleTime(unit.table[i].cell)
                    /\ unit.game_times[i] = unit.table[i].cell.t
        /\ (unit.row_index >= 1 /\ unit.extract.fallback_time >= 0) =>
                LET row == unit.table[unit.row_index]
                IN  /\ (/\ row.cls = "datarow"
                         /\ unit.extract.datarow # unit.extract.fallback_time) =>
                            /\ VisibleTime(row.cell)
                            /\ unit.extract.datarow = row.cell.t
                    /\ (row.cls = "rowheader" /\ unit.extract.rowheader >= 0) =>
                            /\ VisibleTime(row.cell)
                            /\ unit.extract.rowheader = row.cell.t

\* a call of the helper fn has returned or raised
Returned(fn) == unit.pc = "done" /\ unit.fn = fn

\* the entries of a trace that are e
CountOf(trace, e) == Cardinality({i \in 1..Len(trace) : trace[i] = e})

\* the first attempt whose outcome is in the set, 0 where there is none
FirstOf(outs, set) ==
    LET at == {k \in 1..Len(outs) : outs[k] \in set}
    IN  IF at = {} THEN 0 ELSE CHOOSE k \in at : \A m \in at : k <= m

\* C27 safe_find_element makes at most retry_count (default 3) lookup
\*     attempts, returns the element at the first successful attempt, waits
\*     the retry delay only between attempts (never after the last one), and
\*     once all attempts fail with a timeout or driver error returns None
\*     without raising.
C27_FindRetries ==
    Returned("safe_find_element") =>
        LET trace == unit.result.trace
            lookups == CountOf(trace, "lookup")
            found == FirstOf(unit.outs, {"found"})
            broke == FirstOf(unit.outs, {"exception"})
        IN  /\ lookups <= unit.retry_count
            /\ (found > 0 /\ (broke = 0 \/ found < broke)) =>
                    /\ unit.result.element /\ ~unit.result.raised
                    /\ lookups = found
            /\ \A i \in 1..Len(trace) :
                    trace[i] = (IF i % 2 = 1 THEN "lookup" ELSE "sleep")
            /\ Len(trace) > 0 => trace[Len(trace)] = "lookup"
            /\ (found = 0 /\ broke = 0) =>
                    /\ ~unit.result.element /\ ~unit.result.raised
                    /\ lookups = unit.retry_count
                    /\ CountOf(trace, "sleep") = Max0(unit.retry_count - 1)

C27_Witness ==
    /\ Returned("safe_find_element")
    /\ unit.retry_count = DEFAULT_RETRY_COUNT
    /\ unit.outs = <<"timeout", "driver_error", "timeout">>
    /\ unit.result = [element |-> FALSE, raised |-> FALSE,
                      trace |-> <<"lookup", "sleep", "lookup", "sleep",
                                  "lookup">>]

\* C28 safe_click makes at most 3 click attempts and returns True at the
\*     first one that succeeds; on a not-interactable fault it retries (up to
\*     the limit, then returns False); on a stale-reference fault it returns
\*     False immediately, with no further click on that handle.
C28_ClickRetries ==
    Returned("safe_click") =>
        LET clicked == FirstOf(unit.outs, {"clicked"})
            stale == FirstOf(unit.outs, {"stale"})
        IN  /\ unit.result.clicks \in 1..3
            /\ (clicked > 0 /\ (stale = 0 \/ clicked < stale)) =>
                    unit.result = [ok |-> TRUE, clicks |-> clicked]
            /\ (stale > 0 /\ (clicked = 0 \/ stale < clicked)) =>
                    unit.result = [ok |-> FALSE, clicks |-> stale]
            /\ (clicked = 0 /\ stale = 0) =>
                    unit.result = [ok |-> FALSE, clicks |-> 3]
            /\ unit.result.ok => unit.outs[unit.result.clicks] = "clicked"

C28_Witness ==
    /\ Returned("safe_click")
    /\ unit.outs[1] = "not_interactable" /\ unit.outs[2] = "stale"
    /\ unit.result = [ok |-> FALSE, clicks |-> 2]

\* C29 safe_send_keys performs a single attempt: it clears the field and
\*     then writes the value, each at most once and in that order; on any
\*     fault it returns False without retrying, so the value is never typed
\*     into a field more than once per call.
C29_SendKeysOnce ==
    Returned("safe_send_keys") =>
        LET eff == unit.result.eff
        IN  /\ eff \in {<<>>, <<"clear">>, <<"clear", "send_keys">>}
            /\ CountOf(eff, "clear") <= 1
            /\ CountOf(eff, "send_keys") <= 1
            /\ unit.fault # "ok" => ~unit.result.ok
            /\ unit.fault = "ok" =>
                    /\ unit.result.ok
                    /\ eff = <<"clear", "send_keys">>
                    /\ unit.result.val = unit.keys

C29_Witness ==
    /\ Returned("safe_send_keys")
    /\ unit.fault = "send_fails" /\ unit.old = "7" /\ unit.keys = "2"
    /\ unit.result = [ok |-> FALSE, val |-> "", eff |-> <<"clear">>]

\* the read gave a non-empty value
Filled(read) == read.kind = "value" /\ read.v # ""

\* C30 "Already predicted" is true exactly when both prediction fields have
\*     a non-empty value: both empty, exactly one filled, and a value that
\*     cannot be read all count as open, so a write of the row is permitted.
C30_AlreadyTippedExactly ==
    Returned("is_already_tipped") =>
        /\ unit.tipped <=> (Filled(unit.home) /\ Filled(unit.away))
        /\ unit.tipped <=> unit.call.outcome = "already_tipped"
        /\ ~unit.tipped =>
                /\ unit.call.outcome \in {"tipped", "enter_failed", "game_error"}
                /\ Len(unit.call.effects) >= 6
                /\ (/\ unit.in.hw = "ok" /\ unit.in.aw = "ok"
                     /\ ~Malformed(unit.in.blob)) =>
                        /\ unit.call.outcome = "tipped"
                        /\ unit.call.pair \notin {unit.in.pair}
                        /\ unit.call.pair[1] # "" /\ unit.call.pair[2] # ""

C30_Witness ==
    /\ Returned("is_already_tipped")
    /\ unit.home = [kind |-> "value", v |-> "7"]
    /\ unit.away = [kind |-> "stale", v |-> ""]
    /\ ~unit.tipped
    /\ unit.call.outcome = "tipped"

\* the row shows no time of its own: td[1] is missing or empty, or hidden
NoVisibleOwnTime(row) == row.cell.kind = "none" \/ row.cell.hidden

\* C31 A data row that has no visible own time gets as effective kickoff
\*     time the time last observed before it (lastKnownKickoffTime) or,
\*     when no time has been observed yet in the run, the moment of
\*     processing.
C31_NoOwnTimeTakesCarried ==
    unit.pc = "scan" =>
        \A i \in 1..unit.row_index :
            (unit.table[i].cls = "datarow" /\ NoVisibleOwnTime(unit.table[i])) =>
                unit.game_times[i] = LastObserved(unit.table, i - 1, now)

\* the call of this iteration was made on a data row
OnDataRow == Called /\ cur.idx <= Len(rows) /\ rows[cur.idx] = "datarow"

\* C32 A data row whose own time value is there and cannot be parsed is a
\*     malformed-data row: it is counted as an error and skipped, no tip is
\*     written to it and no notification is emitted for it.
C32_UnparsableTimeIsError ==
    (OnDataRow /\ ~cur.raised /\ cur.cell = "bad" /\ Len(cur.effects) >= 2) =>
        /\ OutcomeClass(cur.outcome) = "error"
        /\ ~cur.ret
        /\ cur.events = <<>>
        /\ \A e \in WriteEffects \cup {"notify"} : ~Has(e)

\* the float is a positive finite number
PositiveFinite(f) == ~f.raises /\ f.kind = "finite" /\ f.v > 0

\* C33 Every Game record that is constructed has exactly 3 quotes and each
\*     of them is a positive finite number: a list with a token that is
\*     zero, negative, infinite or not a number is rejected by the
\*     constructor.
C33_QuotesPositiveFinite ==
    (Returned("Game") /\ ~unit.raised) =>
        /\ Len(unit.self_quotes) = 3
        /\ \A k \in 1..3 : PositiveFinite(unit.self_quotes[k])

\* the quotes the link of the call's row yields, as _extract_quotes cuts them
QuotesShown == ExtractQuotes([elem |-> TRUE, text |-> cur.quotes_text])

\* the team cells of the call's row give no name: a cell is missing, or
\* what is left of its text after trimming is empty
NoTeamName ==
    /\ cur.teams \in TeamStates
    /\ \/ cur.teams \in {"no_home_element", "no_away_element"}
       \/ Strip(TeamHtml(cur.teams)[1]) = ""
       \/ Strip(TeamHtml(cur.teams)[2]) = ""

\* the call met a row-level extraction failure: no team name, or a quotes
\* link that does not give 3 tokens, or a token that is no number
ExtractionFailed ==
    /\ Called /\ ~cur.raised
    /\ \/ NoTeamName
       \/ /\ Has("quotes")
          /\ \/ Len(QuotesShown) # 3
             \/ \E k \in 1..Len(QuotesShown) : FloatOf(QuotesShown[k]).raises

\* C34 A row-level extraction failure (empty or unreadable team name, quotes
\*     with a wrong token count, a non-numeric quote token) fails that row
\*     only: both prediction fields are left as they were, no notification
\*     is emitted for it, it is not counted as processed, and the scan goes
\*     on with the next row.
C34_ExtractionFailureLeavesRow ==
    ExtractionFailed =>
        /\ cur.pair = cur.pre
        /\ cur.events = <<>>
        /\ \A e \in WriteEffects \cup {"notify"} : ~Has(e)
        /\ ~cur.ret
        /\ processed_count = cur.count
        /\ notified = cur.notes
        /\ pc = "row_done"

\* C35 Termination: for every finite table and every pattern of transient
\*     access failures a call of tip_all_games ends, returning normally or
\*     raising GameTippingError: the row loop and every retry loop are
\*     bounded.
C35_Terminates == <>Ended

C35_Witness ==
    /\ pc = "returned"
    /\ Len(evaluated) >= 2
    /\ submit.clicks = DEFAULT_RETRY_COUNT
    /\ ~submit.click /\ submit.js

\* C36 Write atomicity per row: a row that the run does not count as
\*     processed has had neither of its prediction fields modified by the
\*     run, so the document submitted at the end holds no half-written or
\*     cleared pair for it.
C36_WriteAtomicity ==
    (Called /\ ~cur.ret) =>
        /\ cur.pair = cur.pre
        /\ \A e \in WriteEffects : ~Has(e)

\* C37 Health counters under concurrency: in every state the server thread
\*     can observe while the main thread records runs, and in every
\*     snapshot get_status builds, total_runs = successful_runs +
\*     failed_runs and successful_runs <= total_runs, so the success rate
\*     reported never exceeds 100.
C37_HealthCountersConsistent ==
    unit.pc = "health" =>
        /\ unit.total_runs = unit.successful_runs + unit.failed_runs
        /\ unit.successful_runs <= unit.total_runs
        /\ unit.http = "returned" =>
                /\ unit.snap.total_runs =
                        unit.snap.successful_runs + unit.snap.failed_runs
                /\ unit.snap.successful_runs <= unit.snap.total_runs
                /\ unit.snap.success_rate <= 10000

\* a call of KicktippBot.run has ended
RunEnded == unit.pc = "cycle_end"

\* what the claim says of a call of run that has ended
RecordsOneResult ==
    /\ Len(unit.bot.recorded) = 1
    /\ unit.bot.recorded[1] = "successful" <=> unit.bot.completed = 3
    /\ unit.bot.recorded[1] = "successful" => unit.bot.raised = "none"
    /\ unit.bot.recorded[1] = "failed" =>
            unit.bot.raised # "none" /\ unit.bot.raised = unit.bot.exc

LoopLeft == unit.pc \in {"main_finally", "exited"}

\* C39 Scheduler loop resilience: a cycle that fails with an exception
\*     other than KeyboardInterrupt never ends the loop of main; with a run
\*     interval > 0 another cycle is started after the wait (unless the
\*     user interrupts), with an interval of 0 exactly one cycle is run,
\*     and on every exit path the health server is stopped.
C39_LoopResilience ==
    /\ [](unit.pc # "none" =>
            /\ LoopLeft => (unit.interrupted \/ unit.interval = 0)
            /\ (LoopLeft /\ unit.interval = 0) => unit.cycles = 1
            /\ unit.pc = "exited" => unit.server # "running")
    /\ \A k \in 1..(MaxCycles - 1) :
            (/\ unit.pc = "after_cycle" /\ unit.cycles = k
             /\ unit.last = "failed" /\ unit.interval > 0)
                ~> (unit.cycles = k + 1 \/ unit.interrupted)

C39_Witness ==
    /\ unit.pc = "create_driver"
    /\ unit.cycles = 2
    /\ unit.last = "failed"
    /\ unit.interval = 2
    /\ unit.server = "running"

\* C40 Frame context safety: whenever _accept_terms_and_conditions returns,
\*     the driver's context is the main document, so every later row access
\*     and the submit run against the main document.
C40_ContextSwitchedBack ==
    /\ unit.pc = "returned" => unit.context = "main"
    /\ unit.access # "iframe"

====
